---- MODULE Spec2Model ----
(***************************************************************************)
(* A model of app.py: the refresh pipeline (refresh_all_data and the       *)
(* disnake fetch it runs), the Roblox helper functions, the cache reader   *)
(* load_cached_data, one run of the page script around them, and two       *)
(* sessions running a refresh at the same time.                            *)
(*                                                                         *)
(* Python values are encoded as sequences of string tokens so that every   *)
(* value can be compared with every other one: a str is the sequence of    *)
(* its characters, None is <<"None">>, a float nan (an empty CSV cell) is  *)
(* <<"nan">>, and an int n is <<"int", n>>.  A dict is a function; the     *)
(* empty dict is <<>>.  A printable ASCII character is written as itself,  *)
(* every other character by its code point ("U+0009" is a tab, "U+30FB"    *)
(* the delimiter of display names).  A file is the sequence of the         *)
(* characters on the disk, the text of json.dump character by character.   *)
(***************************************************************************)
EXTENDS Integers, Sequences, FiniteSets, TLC

\* ------------------------------------------------------------------ bounds

\* Longest roster (rows of users.csv) the pipeline is run on.
MaxRows == 2

\* ------------------------------------------------------------ Python values

None == <<"None">>
NaN == <<"nan">>
PyInt(n) == <<"int", n>>
EmptyDict == <<>>

IsInt(v) == Len(v) = 2 /\ v[1] = "int"

\* bool(v): None, "" and 0 are falsy; nan and every other value are truthy.
Truthy(v) == v # None /\ v # <<>> /\ v # PyInt(0)

\* a or b
Or(a, b) == IF Truthy(a) THEN a ELSE b

\* pd.notna(v)
notna(v) == v # NaN /\ v # None

\* d.get(k) and d.get(k, default)
Get(d, k) == IF k \in DOMAIN d THEN d[k] ELSE None
GetOr(d, k, default) == IF k \in DOMAIN d THEN d[k] ELSE default

\* d[k] = v on a dict
Put(d, k, v) == [x \in DOMAIN d \cup {k} |-> IF x = k THEN v ELSE d[x]]

Range(s) == {s[i] : i \in DOMAIN s}

\* The characters of a string of printable ASCII characters.
Chars(s) == [i \in 1..Len(s) |-> SubSeq(s, i, i)]

\* The sequences of a sequence, one after the other.
RECURSIVE Flatten(_)
Flatten(ss) ==
    IF Len(ss) = 0 THEN <<>>
    ELSE IF Len(ss) = 1 THEN ss[1]
    ELSE Flatten(SubSeq(ss, 1, Len(ss) \div 2))
         \o Flatten(SubSeq(ss, (Len(ss) \div 2) + 1, Len(ss)))

\* ------------------------------------------------------------ str methods

\* The characters str.isspace() is true for: what str.strip() removes.
Whitespace ==
    {"U+0009", "U+000A", "U+000B", "U+000C", "U+000D", "U+001C", "U+001D",
     "U+001E", "U+001F", " ", "U+0085", "U+00A0", "U+1680", "U+2000",
     "U+2001", "U+2002", "U+2003", "U+2004", "U+2005", "U+2006", "U+2007",
     "U+2008", "U+2009", "U+200A", "U+2028", "U+2029", "U+202F", "U+205F",
     "U+3000"}

\* The decimal digits of Unicode, every run in the order 0 to 9: the
\* characters int() reads.
DecimalRuns ==
    <<<<"0", "1", "2", "3", "4", "5", "6", "7", "8", "9">>,
      <<"U+0660", "U+0661", "U+0662", "U+0663", "U+0664", "U+0665", "U+0666", "U+0667", "U+0668", "U+0669">>,
      <<"U+06F0", "U+06F1", "U+06F2", "U+06F3", "U+06F4", "U+06F5", "U+06F6", "U+06F7", "U+06F8", "U+06F9">>,
      <<"U+07C0", "U+07C1", "U+07C2", "U+07C3", "U+07C4", "U+07C5", "U+07C6", "U+07C7", "U+07C8", "U+07C9">>,
      <<"U+0966", "U+0967", "U+0968", "U+0969", "U+096A", "U+096B", "U+096C", "U+096D", "U+096E", "U+096F">>,
      <<"U+09E6", "U+09E7", "U+09E8", "U+09E9", "U+09EA", "U+09EB", "U+09EC", "U+09ED", "U+09EE", "U+09EF">>,
      <<"U+0A66", "U+0A67", "U+0A68", "U+0A69", "U+0A6A", "U+0A6B", "U+0A6C", "U+0A6D", "U+0A6E", "U+0A6F">>,
      <<"U+0AE6", "U+0AE7", "U+0AE8", "U+0AE9", "U+0AEA", "U+0AEB", "U+0AEC", "U+0AED", "U+0AEE", "U+0AEF">>,
      <<"U+0B66", "U+0B67", "U+0B68", "U+0B69", "U+0B6A", "U+0B6B", "U+0B6C", "U+0B6D", "U+0B6E", "U+0B6F">>,
      <<"U+0BE6", "U+0BE7", "U+0BE8", "U+0BE9", "U+0BEA", "U+0BEB", "U+0BEC", "U+0BED", "U+0BEE", "U+0BEF">>,
      <<"U+0C66", "U+0C67", "U+0C68", "U+0C69", "U+0C6A", "U+0C6B", "U+0C6C", "U+0C6D", "U+0C6E", "U+0C6F">>,
      <<"U+0CE6", "U+0CE7", "U+0CE8", "U+0CE9", "U+0CEA", "U+0CEB", "U+0CEC", "U+0CED", "U+0CEE", "U+0CEF">>,
      <<"U+0D66", "U+0D67", "U+0D68", "U+0D69", "U+0D6A", "U+0D6B", "U+0D6C", "U+0D6D", "U+0D6E", "U+0D6F">>,
      <<"U+0DE6", "U+0DE7", "U+0DE8", "U+0DE9", "U+0DEA", "U+0DEB", "U+0DEC", "U+0DED", "U+0DEE", "U+0DEF">>,
      <<"U+0E50", "U+0E51", "U+0E52", "U+0E53", "U+0E54", "U+0E55", "U+0E56", "U+0E57", "U+0E58", "U+0E59">>,
      <<"U+0ED0", "U+0ED1", "U+0ED2", "U+0ED3", "U+0ED4", "U+0ED5", "U+0ED6", "U+0ED7", "U+0ED8", "U+0ED9">>,
      <<"U+0F20", "U+0F21", "U+0F22", "U+0F23", "U+0F24", "U+0F25", "U+0F26", "U+0F27", "U+0F28", "U+0F29">>,
      <<"U+1040", "U+1041", "U+1042", "U+1043", "U+1044", "U+1045", "U+1046", "U+1047", "U+1048", "U+1049">>,
      <<"U+1090", "U+1091", "U+1092", "U+1093", "U+1094", "U+1095", "U+1096", "U+1097", "U+1098", "U+1099">>,
      <<"U+17E0", "U+17E1", "U+17E2", "U+17E3", "U+17E4", "U+17E5", "U+17E6", "U+17E7", "U+17E8", "U+17E9">>,
      <<"U+1810", "U+1811", "U+1812", "U+1813", "U+1814", "U+1815", "U+1816", "U+1817", "U+1818", "U+1819">>,
      <<"U+1946", "U+1947", "U+1948", "U+1949", "U+194A", "U+194B", "U+194C", "U+194D", "U+194E", "U+194F">>,
      <<"U+19D0", "U+19D1", "U+19D2", "U+19D3", "U+19D4", "U+19D5", "U+19D6", "U+19D7", "U+19D8", "U+19D9">>,
      <<"U+1A80", "U+1A81", "U+1A82", "U+1A83", "U+1A84", "U+1A85", "U+1A86", "U+1A87", "U+1A88", "U+1A89">>,
      <<"U+1A90", "U+1A91", "U+1A92", "U+1A93", "U+1A94", "U+1A95", "U+1A96", "U+1A97", "U+1A98", "U+1A99">>,
      <<"U+1B50", "U+1B51", "U+1B52", "U+1B53", "U+1B54", "U+1B55", "U+1B56", "U+1B57", "U+1B58", "U+1B59">>,
      <<"U+1BB0", "U+1BB1", "U+1BB2", "U+1BB3", "U+1BB4", "U+1BB5", "U+1BB6", "U+1BB7", "U+1BB8", "U+1BB9">>,
      <<"U+1C40", "U+1C41", "U+1C42", "U+1C43", "U+1C44", "U+1C45", "U+1C46", "U+1C47", "U+1C48", "U+1C49">>,
      <<"U+1C50", "U+1C51", "U+1C52", "U+1C53", "U+1C54", "U+1C55", "U+1C56", "U+1C57", "U+1C58", "U+1C59">>,
      <<"U+A620", "U+A621", "U+A622", "U+A623", "U+A624", "U+A625", "U+A626", "U+A627", "U+A628", "U+A629">>,
      <<"U+A8D0", "U+A8D1", "U+A8D2", "U+A8D3", "U+A8D4", "U+A8D5", "U+A8D6", "U+A8D7", "U+A8D8", "U+A8D9">>,
      <<"U+A900", "U+A901", "U+A902", "U+A903", "U+A904", "U+A905", "U+A906", "U+A907", "U+A908", "U+A909">>,
      <<"U+A9D0", "U+A9D1", "U+A9D2", "U+A9D3", "U+A9D4", "U+A9D5", "U+A9D6", "U+A9D7", "U+A9D8", "U+A9D9">>,
      <<"U+A9F0", "U+A9F1", "U+A9F2", "U+A9F3", "U+A9F4", "U+A9F5", "U+A9F6", "U+A9F7", "U+A9F8", "U+A9F9">>,
      <<"U+AA50", "U+AA51", "U+AA52", "U+AA53", "U+AA54", "U+AA55", "U+AA56", "U+AA57", "U+AA58", "U+AA59">>,
      <<"U+ABF0", "U+ABF1", "U+ABF2", "U+ABF3", "U+ABF4", "U+ABF5", "U+ABF6", "U+ABF7", "U+ABF8", "U+ABF9">>,
      <<"U+FF10", "U+FF11", "U+FF12", "U+FF13", "U+FF14", "U+FF15", "U+FF16", "U+FF17", "U+FF18", "U+FF19">>,
      <<"U+104A0", "U+104A1", "U+104A2", "U+104A3", "U+104A4", "U+104A5", "U+104A6", "U+104A7", "U+104A8", "U+104A9">>,
      <<"U+10D30", "U+10D31", "U+10D32", "U+10D33", "U+10D34", "U+10D35", "U+10D36", "U+10D37", "U+10D38", "U+10D39">>,
      <<"U+11066", "U+11067", "U+11068", "U+11069", "U+1106A", "U+1106B", "U+1106C", "U+1106D", "U+1106E", "U+1106F">>,
      <<"U+110F0", "U+110F1", "U+110F2", "U+110F3", "U+110F4", "U+110F5", "U+110F6", "U+110F7", "U+110F8", "U+110F9">>,
      <<"U+11136", "U+11137", "U+11138", "U+11139", "U+1113A", "U+1113B", "U+1113C", "U+1113D", "U+1113E", "U+1113F">>,
      <<"U+111D0", "U+111D1", "U+111D2", "U+111D3", "U+111D4", "U+111D5", "U+111D6", "U+111D7", "U+111D8", "U+111D9">>,
      <<"U+112F0", "U+112F1", "U+112F2", "U+112F3", "U+112F4", "U+112F5", "U+112F6", "U+112F7", "U+112F8", "U+112F9">>,
      <<"U+11450", "U+11451", "U+11452", "U+11453", "U+11454", "U+11455", "U+11456", "U+11457", "U+11458", "U+11459">>,
      <<"U+114D0", "U+114D1", "U+114D2", "U+114D3", "U+114D4", "U+114D5", "U+114D6", "U+114D7", "U+114D8", "U+114D9">>,
      <<"U+11650", "U+11651", "U+11652", "U+11653", "U+11654", "U+11655", "U+11656", "U+11657", "U+11658", "U+11659">>,
      <<"U+116C0", "U+116C1", "U+116C2", "U+116C3", "U+116C4", "U+116C5", "U+116C6", "U+116C7", "U+116C8", "U+116C9">>,
      <<"U+11730", "U+11731", "U+11732", "U+11733", "U+11734", "U+11735", "U+11736", "U+11737", "U+11738", "U+11739">>,
      <<"U+118E0", "U+118E1", "U+118E2", "U+118E3", "U+118E4", "U+118E5", "U+118E6", "U+118E7", "U+118E8", "U+118E9">>,
      <<"U+11950", "U+11951", "U+11952", "U+11953", "U+11954", "U+11955", "U+11956", "U+11957", "U+11958", "U+11959">>,
      <<"U+11C50", "U+11C51", "U+11C52", "U+11C53", "U+11C54", "U+11C55", "U+11C56", "U+11C57", "U+11C58", "U+11C59">>,
      <<"U+11D50", "U+11D51", "U+11D52", "U+11D53", "U+11D54", "U+11D55", "U+11D56", "U+11D57", "U+11D58", "U+11D59">>,
      <<"U+11DA0", "U+11DA1", "U+11DA2", "U+11DA3", "U+11DA4", "U+11DA5", "U+11DA6", "U+11DA7", "U+11DA8", "U+11DA9">>,
      <<"U+16A60", "U+16A61", "U+16A62", "U+16A63", "U+16A64", "U+16A65", "U+16A66", "U+16A67", "U+16A68", "U+16A69">>,
      <<"U+16AC0", "U+16AC1", "U+16AC2", "U+16AC3", "U+16AC4", "U+16AC5", "U+16AC6", "U+16AC7", "U+16AC8", "U+16AC9">>,
      <<"U+16B50", "U+16B51", "U+16B52", "U+16B53", "U+16B54", "U+16B55", "U+16B56", "U+16B57", "U+16B58", "U+16B59">>,
      <<"U+1D7CE", "U+1D7CF", "U+1D7D0", "U+1D7D1", "U+1D7D2", "U+1D7D3", "U+1D7D4", "U+1D7D5", "U+1D7D6", "U+1D7D7">>,
      <<"U+1D7D8", "U+1D7D9", "U+1D7DA", "U+1D7DB", "U+1D7DC", "U+1D7DD", "U+1D7DE", "U+1D7DF", "U+1D7E0", "U+1D7E1">>,
      <<"U+1D7E2", "U+1D7E3", "U+1D7E4", "U+1D7E5", "U+1D7E6", "U+1D7E7", "U+1D7E8", "U+1D7E9", "U+1D7EA", "U+1D7EB">>,
      <<"U+1D7EC", "U+1D7ED", "U+1D7EE", "U+1D7EF", "U+1D7F0", "U+1D7F1", "U+1D7F2", "U+1D7F3", "U+1D7F4", "U+1D7F5">>,
      <<"U+1D7F6", "U+1D7F7", "U+1D7F8", "U+1D7F9", "U+1D7FA", "U+1D7FB", "U+1D7FC", "U+1D7FD", "U+1D7FE", "U+1D7FF">>,
      <<"U+1E140", "U+1E141", "U+1E142", "U+1E143", "U+1E144", "U+1E145", "U+1E146", "U+1E147", "U+1E148", "U+1E149">>,
      <<"U+1E2F0", "U+1E2F1", "U+1E2F2", "U+1E2F3", "U+1E2F4", "U+1E2F5", "U+1E2F6", "U+1E2F7", "U+1E2F8", "U+1E2F9">>,
      <<"U+1E950", "U+1E951", "U+1E952", "U+1E953", "U+1E954", "U+1E955", "U+1E956", "U+1E957", "U+1E958", "U+1E959">>,
      <<"U+1FBF0", "U+1FBF1", "U+1FBF2", "U+1FBF3", "U+1FBF4", "U+1FBF5", "U+1FBF6", "U+1FBF7", "U+1FBF8", "U+1FBF9">>>>

\* The other characters str.isdigit() is true for (superscripts, circled
\* digits and the like): int() raises ValueError on them.
OtherDigits ==
    {"U+00B2", "U+00B3", "U+00B9", "U+1369", "U+136A", "U+136B", "U+136C",
     "U+136D", "U+136E", "U+136F", "U+1370", "U+1371", "U+19DA", "U+2070",
     "U+2074", "U+2075", "U+2076", "U+2077", "U+2078", "U+2079", "U+2080",
     "U+2081", "U+2082", "U+2083", "U+2084", "U+2085", "U+2086", "U+2087",
     "U+2088", "U+2089", "U+2460", "U+2461", "U+2462", "U+2463", "U+2464",
     "U+2465", "U+2466", "U+2467", "U+2468", "U+2474", "U+2475", "U+2476",
     "U+2477", "U+2478", "U+2479", "U+247A", "U+247B", "U+247C", "U+2488",
     "U+2489", "U+248A", "U+248B", "U+248C", "U+248D", "U+248E", "U+248F",
     "U+2490", "U+24EA", "U+24F5", "U+24F6", "U+24F7", "U+24F8", "U+24F9",
     "U+24FA", "U+24FB", "U+24FC", "U+24FD", "U+24FF", "U+2776", "U+2777",
     "U+2778", "U+2779", "U+277A", "U+277B", "U+277C", "U+277D", "U+277E",
     "U+2780", "U+2781", "U+2782", "U+2783", "U+2784", "U+2785", "U+2786",
     "U+2787", "U+2788", "U+278A", "U+278B", "U+278C", "U+278D", "U+278E",
     "U+278F", "U+2790", "U+2791", "U+2792", "U+10A40", "U+10A41", "U+10A42",
     "U+10A43", "U+10E60", "U+10E61", "U+10E62", "U+10E63", "U+10E64",
     "U+10E65", "U+10E66", "U+10E67", "U+10E68", "U+11052", "U+11053",
     "U+11054", "U+11055", "U+11056", "U+11057", "U+11058", "U+11059",
     "U+1105A", "U+1F100", "U+1F101", "U+1F102", "U+1F103", "U+1F104",
     "U+1F105", "U+1F106", "U+1F107", "U+1F108", "U+1F109", "U+1F10A"}

DecimalChars == UNION {Range(DecimalRuns[r]) : r \in DOMAIN DecimalRuns}

RECURSIVE lstrip(_)
lstrip(s) == IF s # <<>> /\ Head(s) \in Whitespace THEN lstrip(Tail(s)) ELSE s

RECURSIVE rstrip(_)
rstrip(s) ==
    IF s # <<>> /\ s[Len(s)] \in Whitespace
    THEN rstrip(SubSeq(s, 1, Len(s) - 1))
    ELSE s

\* str.strip()
strip(s) == rstrip(lstrip(s))

\* Series.str.strip(): a missing cell stays missing.
str_strip(v) == IF v = NaN THEN NaN ELSE strip(v)

\* str.isdigit()
isdigit(s) == s # <<>> /\ \A i \in DOMAIN s : s[i] \in DecimalChars \cup OtherDigits

\* str(v) of a cell: str(nan) is "nan".
str(v) == IF v = NaN THEN <<"n", "a", "n">> ELSE v

\* The value of a decimal digit.
digit_value(c) ==
    IF \E v \in 0..9 : DecimalRuns[1][v + 1] = c
    THEN CHOOSE v \in 0..9 : DecimalRuns[1][v + 1] = c
    ELSE CHOOSE v \in 0..9 : \E r \in DOMAIN DecimalRuns : DecimalRuns[r][v + 1] = c

\* int(s) raises ValueError: s passed isdigit() and has a digit that is not
\* a decimal one.
int_raises(s) == \E i \in DOMAIN s : s[i] \notin DecimalChars

\* int(s) of a string of decimal digits.
RECURSIVE int_of_id(_)
int_of_id(s) ==
    IF s = <<>> THEN 0
    ELSE 10 * int_of_id(SubSeq(s, 1, Len(s) - 1)) + digit_value(s[Len(s)])

\* str(n) of an int n >= 0.
RECURSIVE str_of_nat(_)
str_of_nat(n) ==
    IF n < 10 THEN <<DecimalRuns[1][n + 1]>>
    ELSE Append(str_of_nat(n \div 10), DecimalRuns[1][(n % 10) + 1])

\* The printable ASCII characters in the order of their code points, 32
\* to 126 (the grave accent by its code point).
Ascii ==
    Chars(" !\"#$%&'()*+,-./0123456789:;<=>?@ABCDEFGHIJKLMNOPQRSTUVWXYZ[\\]^_")
    \o <<"U+0060">> \o Chars("abcdefghijklmnopqrstuvwxyz{|}~")

\* The hexadecimal digits: the value of the one at k is k - 1 up to F and
\* k - 7 in lower case.
HEX == Chars("0123456789ABCDEFabcdef")

\* int(s, 16)
RECURSIVE hex_value(_)
hex_value(s) ==
    IF Len(s) = 0 THEN 0
    ELSE LET k == CHOOSE x \in DOMAIN HEX : HEX[x] = s[Len(s)]
         IN 16 * hex_value(SubSeq(s, 1, Len(s) - 1)) + (IF k <= 16 THEN k - 1 ELSE k - 7)

\* ord(c) and chr(n)
ord(c) ==
    IF Len(c) = 1 THEN 31 + (CHOOSE i \in DOMAIN Ascii : Ascii[i] = c)
    ELSE hex_value(Chars(SubSeq(c, 3, Len(c))))

chr(n) ==
    IF n \in 32..126 THEN Ascii[n - 31]
    ELSE "U+" \o (IF n >= 1048576 THEN "10"
                  ELSE IF n >= 65536 THEN HEX[(n \div 65536) + 1] ELSE "")
         \o HEX[((n \div 4096) % 16) + 1] \o HEX[((n \div 256) % 16) + 1]
         \o HEX[((n \div 16) % 16) + 1] \o HEX[(n % 16) + 1]

\* The characters str.lower() changes into one other character, and below
\* what it changes each of them into.
Upper ==
    <<"A", "B", "C", "D", "E", "F", "G", "H", "I", "J", "K", "L", "M", "N",
      "O", "P", "Q", "R", "S", "T", "U", "V", "W", "X", "Y", "Z", "U+00C0",
      "U+00C1", "U+00C2", "U+00C3", "U+00C4", "U+00C5", "U+00C6", "U+00C7",
      "U+00C8", "U+00C9", "U+00CA", "U+00CB", "U+00CC", "U+00CD", "U+00CE",
      "U+00CF", "U+00D0", "U+00D1", "U+00D2", "U+00D3", "U+00D4", "U+00D5",
      "U+00D6", "U+00D8", "U+00D9", "U+00DA", "U+00DB", "U+00DC", "U+00DD",
      "U+00DE", "U+0100", "U+0102", "U+0104", "U+0106", "U+0108", "U+010A",
      "U+010C", "U+010E", "U+0110", "U+0112", "U+0114", "U+0116", "U+0118",
      "U+011A", "U+011C", "U+011E", "U+0120", "U+0122", "U+0124", "U+0126",
      "U+0128", "U+012A", "U+012C", "U+012E", "U+0132", "U+0134", "U+0136",
      "U+0139", "U+013B", "U+013D", "U+013F", "U+0141", "U+0143", "U+0145",
      "U+0147", "U+014A", "U+014C", "U+014E", "U+0150", "U+0152", "U+0154",
      "U+0156", "U+0158", "U+015A", "U+015C", "U+015E", "U+0160", "U+0162",
      "U+0164", "U+0166", "U+0168", "U+016A", "U+016C", "U+016E", "U+0170",
      "U+0172", "U+0174", "U+0176", "U+0178", "U+0179", "U+017B", "U+017D",
      "U+0181", "U+0182", "U+0184", "U+0186", "U+0187", "U+0189", "U+018A",
      "U+018B", "U+018E", "U+018F", "U+0190", "U+0191", "U+0193", "U+0194",
      "U+0196", "U+0197", "U+0198", "U+019C", "U+019D", "U+019F", "U+01A0",
      "U+01A2", "U+01A4", "U+01A6", "U+01A7", "U+01A9", "U+01AC", "U+01AE",
      "U+01AF", "U+01B1", "U+01B2", "U+01B3", "U+01B5", "U+01B7", "U+01B8",
      "U+01BC", "U+01C4", "U+01C5", "U+01C7", "U+01C8", "U+01CA", "U+01CB",
      "U+01CD", "U+01CF", "U+01D1", "U+01D3", "U+01D5", "U+01D7", "U+01D9",
      "U+01DB", "U+01DE", "U+01E0", "U+01E2", "U+01E4", "U+01E6", "U+01E8",
      "U+01EA", "U+01EC", "U+01EE", "U+01F1", "U+01F2", "U+01F4", "U+01F6",
      "U+01F7", "U+01F8", "U+01FA", "U+01FC", "U+01FE", "U+0200", "U+0202",
      "U+0204", "U+0206", "U+0208", "U+020A", "U+020C", "U+020E", "U+0210",
      "U+0212", "U+0214", "U+0216", "U+0218", "U+021A", "U+021C", "U+021E",
      "U+0220", "U+0222", "U+0224", "U+0226", "U+0228", "U+022A", "U+022C",
      "U+022E", "U+0230", "U+0232", "U+023A", "U+023B", "U+023D", "U+023E",
      "U+0241", "U+0243", "U+0244", "U+0245", "U+0246", "U+0248", "U+024A",
      "U+024C", "U+024E", "U+0370", "U+0372", "U+0376", "U+037F", "U+0386",
      "U+0388", "U+0389", "U+038A", "U+038C", "U+038E", "U+038F", "U+0391",
      "U+0392", "U+0393", "U+0394", "U+0395", "U+0396", "U+0397", "U+0398",
      "U+0399", "U+039A", "U+039B", "U+039C", "U+039D", "U+039E", "U+039F",
      "U+03A0", "U+03A1", "U+03A3", "U+03A4", "U+03A5", "U+03A6", "U+03A7",
      "U+03A8", "U+03A9", "U+03AA", "U+03AB", "U+03CF", "U+03D8", "U+03DA",
      "U+03DC", "U+03DE", "U+03E0", "U+03E2", "U+03E4", "U+03E6", "U+03E8",
      "U+03EA", "U+03EC", "U+03EE", "U+03F4", "U+03F7", "U+03F9", "U+03FA",
      "U+03FD", "U+03FE", "U+03FF", "U+0400", "U+0401", "U+0402", "U+0403",
      "U+0404", "U+0405", "U+0406", "U+0407", "U+0408", "U+0409", "U+040A",
      "U+040B", "U+040C", "U+040D", "U+040E", "U+040F", "U+0410", "U+0411",
      "U+0412", "U+0413", "U+0414", "U+0415", "U+0416", "U+0417", "U+0418",
      "U+0419", "U+041A", "U+041B", "U+041C", "U+041D", "U+041E", "U+041F",
      "U+0420", "U+0421", "U+0422", "U+0423", "U+0424", "U+0425", "U+0426",
      "U+0427", "U+0428", "U+0429", "U+042A", "U+042B", "U+042C", "U+042D",
      "U+042E", "U+042F", "U+0460", "U+0462", "U+0464", "U+0466", "U+0468",
      "U+046A", "U+046C", "U+046E", "U+0470", "U+0472", "U+0474", "U+0476",
      "U+0478", "U+047A", "U+047C", "U+047E", "U+0480", "U+048A", "U+048C",
      "U+048E", "U+0490", "U+0492", "U+0494", "U+0496", "U+0498", "U+049A",
      "U+049C", "U+049E", "U+04A0", "U+04A2", "U+04A4", "U+04A6", "U+04A8",
      "U+04AA", "U+04AC", "U+04AE", "U+04B0", "U+04B2", "U+04B4", "U+04B6",
      "U+04B8", "U+04BA", "U+04BC", "U+04BE", "U+04C0", "U+04C1", "U+04C3",
      "U+04C5", "U+04C7", "U+04C9", "U+04CB", "U+04CD", "U+04D0", "U+04D2",
      "U+04D4", "U+04D6", "U+04D8", "U+04DA", "U+04DC", "U+04DE", "U+04E0",
      "U+04E2", "U+04E4", "U+04E6", "U+04E8", "U+04EA", "U+04EC", "U+04EE",
      "U+04F0", "U+04F2", "U+04F4", "U+04F6", "U+04F8", "U+04FA", "U+04FC",
      "U+04FE", "U+0500", "U+0502", "U+0504", "U+0506", "U+0508", "U+050A",
      "U+050C", "U+050E", "U+0510", "U+0512", "U+0514", "U+0516", "U+0518",
      "U+051A", "U+051C", "U+051E", "U+0520", "U+0522", "U+0524", "U+0526",
      "U+0528", "U+052A", "U+052C", "U+052E", "U+0531", "U+0532", "U+0533",
      "U+0534", "U+0535", "U+0536", "U+0537", "U+0538", "U+0539", "U+053A",
      "U+053B", "U+053C", "U+053D", "U+053E", "U+053F", "U+0540", "U+0541",
      "U+0542", "U+0543", "U+0544", "U+0545", "U+0546", "U+0547", "U+0548",
      "U+0549", "U+054A", "U+054B", "U+054C", "U+054D", "U+054E", "U+054F",
      "U+0550", "U+0551", "U+0552", "U+0553", "U+0554", "U+0555", "U+0556",
      "U+10A0", "U+10A1", "U+10A2", "U+10A3", "U+10A4", "U+10A5", "U+10A6",
      "U+10A7", "U+10A8", "U+10A9", "U+10AA", "U+10AB", "U+10AC", "U+10AD",
      "U+10AE", "U+10AF", "U+10B0", "U+10B1", "U+10B2", "U+10B3", "U+10B4",
      "U+10B5", "U+10B6", "U+10B7", "U+10B8", "U+10B9", "U+10BA", "U+10BB",
      "U+10BC", "U+10BD", "U+10BE", "U+10BF", "U+10C0", "U+10C1", "U+10C2",
      "U+10C3", "U+10C4", "U+10C5", "U+10C7", "U+10CD", "U+13A0", "U+13A1",
      "U+13A2", "U+13A3", "U+13A4", "U+13A5", "U+13A6", "U+13A7", "U+13A8",
      "U+13A9", "U+13AA", "U+13AB", "U+13AC", "U+13AD", "U+13AE", "U+13AF",
      "U+13B0", "U+13B1", "U+13B2", "U+13B3", "U+13B4", "U+13B5", "U+13B6",
      "U+13B7", "U+13B8", "U+13B9", "U+13BA", "U+13BB", "U+13BC", "U+13BD",
      "U+13BE", "U+13BF", "U+13C0", "U+13C1", "U+13C2", "U+13C3", "U+13C4",
      "U+13C5", "U+13C6", "U+13C7", "U+13C8", "U+13C9", "U+13CA", "U+13CB",
      "U+13CC", "U+13CD", "U+13CE", "U+13CF", "U+13D0", "U+13D1", "U+13D2",
      "U+13D3", "U+13D4", "U+13D5", "U+13D6", "U+13D7", "U+13D8", "U+13D9",
      "U+13DA", "U+13DB", "U+13DC", "U+13DD", "U+13DE", "U+13DF", "U+13E0",
      "U+13E1", "U+13E2", "U+13E3", "U+13E4", "U+13E5", "U+13E6", "U+13E7",
      "U+13E8", "U+13E9", "U+13EA", "U+13EB", "U+13EC", "U+13ED", "U+13EE",
      "U+13EF", "U+13F0", "U+13F1", "U+13F2", "U+13F3", "U+13F4", "U+13F5",
      "U+1C90", "U+1C91", "U+1C92", "U+1C93", "U+1C94", "U+1C95", "U+1C96",
      "U+1C97", "U+1C98", "U+1C99", "U+1C9A", "U+1C9B", "U+1C9C", "U+1C9D",
      "U+1C9E", "U+1C9F", "U+1CA0", "U+1CA1", "U+1CA2", "U+1CA3", "U+1CA4",
      "U+1CA5", "U+1CA6", "U+1CA7", "U+1CA8", "U+1CA9", "U+1CAA", "U+1CAB",
      "U+1CAC", "U+1CAD", "U+1CAE", "U+1CAF", "U+1CB0", "U+1CB1", "U+1CB2",
      "U+1CB3", "U+1CB4", "U+1CB5", "U+1CB6", "U+1CB7", "U+1CB8", "U+1CB9",
      "U+1CBA", "U+1CBD", "U+1CBE", "U+1CBF", "U+1E00", "U+1E02", "U+1E04",
      "U+1E06", "U+1E08", "U+1E0A", "U+1E0C", "U+1E0E", "U+1E10", "U+1E12",
      "U+1E14", "U+1E16", "U+1E18", "U+1E1A", "U+1E1C", "U+1E1E", "U+1E20",
      "U+1E22", "U+1E24", "U+1E26", "U+1E28", "U+1E2A", "U+1E2C", "U+1E2E",
      "U+1E30", "U+1E32", "U+1E34", "U+1E36", "U+1E38", "U+1E3A", "U+1E3C",
      "U+1E3E", "U+1E40", "U+1E42", "U+1E44", "U+1E46", "U+1E48", "U+1E4A",
      "U+1E4C", "U+1E4E", "U+1E50", "U+1E52", "U+1E54", "U+1E56", "U+1E58",
      "U+1E5A", "U+1E5C", "U+1E5E", "U+1E60", "U+1E62", "U+1E64", "U+1E66",
      "U+1E68", "U+1E6A", "U+1E6C", "U+1E6E", "U+1E70", "U+1E72", "U+1E74",
      "U+1E76", "U+1E78", "U+1E7A", "U+1E7C", "U+1E7E", "U+1E80", "U+1E82",
      "U+1E84", "U+1E86", "U+1E88", "U+1E8A", "U+1E8C", "U+1E8E", "U+1E90",
      "U+1E92", "U+1E94", "U+1E9E", "U+1EA0", "U+1EA2", "U+1EA4", "U+1EA6",
      "U+1EA8", "U+1EAA", "U+1EAC", "U+1EAE", "U+1EB0", "U+1EB2", "U+1EB4",
      "U+1EB6", "U+1EB8", "U+1EBA", "U+1EBC", "U+1EBE", "U+1EC0", "U+1EC2",
      "U+1EC4", "U+1EC6", "U+1EC8", "U+1ECA", "U+1ECC", "U+1ECE", "U+1ED0",
      "U+1ED2", "U+1ED4", "U+1ED6", "U+1ED8", "U+1EDA", "U+1EDC", "U+1EDE",
      "U+1EE0", "U+1EE2", "U+1EE4", "U+1EE6", "U+1EE8", "U+1EEA", "U+1EEC",
      "U+1EEE", "U+1EF0", "U+1EF2", "U+1EF4", "U+1EF6", "U+1EF8", "U+1EFA",
      "U+1EFC", "U+1EFE", "U+1F08", "U+1F09", "U+1F0A", "U+1F0B", "U+1F0C",
      "U+1F0D", "U+1F0E", "U+1F0F", "U+1F18", "U+1F19", "U+1F1A", "U+1F1B",
      "U+1F1C", "U+1F1D", "U+1F28", "U+1F29", "U+1F2A", "U+1F2B", "U+1F2C",
      "U+1F2D", "U+1F2E", "U+1F2F", "U+1F38", "U+1F39", "U+1F3A", "U+1F3B",
      "U+1F3C", "U+1F3D", "U+1F3E", "U+1F3F", "U+1F48", "U+1F49", "U+1F4A",
      "U+1F4B", "U+1F4C", "U+1F4D", "U+1F59", "U+1F5B", "U+1F5D", "U+1F5F",
      "U+1F68", "U+1F69", "U+1F6A", "U+1F6B", "U+1F6C", "U+1F6D", "U+1F6E",
      "U+1F6F", "U+1F88", "U+1F89", "U+1F8A", "U+1F8B", "U+1F8C", "U+1F8D",
      "U+1F8E", "U+1F8F", "U+1F98", "U+1F99", "U+1F9A", "U+1F9B", "U+1F9C",
      "U+1F9D", "U+1F9E", "U+1F9F", "U+1FA8", "U+1FA9", "U+1FAA", "U+1FAB",
      "U+1FAC", "U+1FAD", "U+1FAE", "U+1FAF", "U+1FB8", "U+1FB9", "U+1FBA",
      "U+1FBB", "U+1FBC", "U+1FC8", "U+1FC9", "U+1FCA", "U+1FCB", "U+1FCC",
      "U+1FD8", "U+1FD9", "U+1FDA", "U+1FDB", "U+1FE8", "U+1FE9", "U+1FEA",
      "U+1FEB", "U+1FEC", "U+1FF8", "U+1FF9", "U+1FFA", "U+1FFB", "U+1FFC",
      "U+2126", "U+212A", "U+212B", "U+2132", "U+2160", "U+2161", "U+2162",
      "U+2163", "U+2164", "U+2165", "U+2166", "U+2167", "U+2168", "U+2169",
      "U+216A", "U+216B", "U+216C", "U+216D", "U+216E", "U+216F", "U+2183",
      "U+24B6", "U+24B7", "U+24B8", "U+24B9", "U+24BA", "U+24BB", "U+24BC",
      "U+24BD", "U+24BE", "U+24BF", "U+24C0", "U+24C1", "U+24C2", "U+24C3",
      "U+24C4", "U+24C5", "U+24C6", "U+24C7", "U+24C8", "U+24C9", "U+24CA",
      "U+24CB", "U+24CC", "U+24CD", "U+24CE", "U+24CF", "U+2C00", "U+2C01",
      "U+2C02", "U+2C03", "U+2C04", "U+2C05", "U+2C06", "U+2C07", "U+2C08",
      "U+2C09", "U+2C0A", "U+2C0B", "U+2C0C", "U+2C0D", "U+2C0E", "U+2C0F",
      "U+2C10", "U+2C11", "U+2C12", "U+2C13", "U+2C14", "U+2C15", "U+2C16",
      "U+2C17", "U+2C18", "U+2C19", "U+2C1A", "U+2C1B", "U+2C1C", "U+2C1D",
      "U+2C1E", "U+2C1F", "U+2C20", "U+2C21", "U+2C22", "U+2C23", "U+2C24",
      "U+2C25", "U+2C26", "U+2C27", "U+2C28", "U+2C29", "U+2C2A", "U+2C2B",
      "U+2C2C", "U+2C2D", "U+2C2E", "U+2C2F", "U+2C60", "U+2C62", "U+2C63",
      "U+2C64", "U+2C67", "U+2C69", "U+2C6B", "U+2C6D", "U+2C6E", "U+2C6F",
      "U+2C70", "U+2C72", "U+2C75", "U+2C7E", "U+2C7F", "U+2C80", "U+2C82",
      "U+2C84", "U+2C86", "U+2C88", "U+2C8A", "U+2C8C", "U+2C8E", "U+2C90",
      "U+2C92", "U+2C94", "U+2C96", "U+2C98", "U+2C9A", "U+2C9C", "U+2C9E",
      "U+2CA0", "U+2CA2", "U+2CA4", "U+2CA6", "U+2CA8", "U+2CAA", "U+2CAC",
      "U+2CAE", "U+2CB0", "U+2CB2", "U+2CB4", "U+2CB6", "U+2CB8", "U+2CBA",
      "U+2CBC", "U+2CBE", "U+2CC0", "U+2CC2", "U+2CC4", "U+2CC6", "U+2CC8",
      "U+2CCA", "U+2CCC", "U+2CCE", "U+2CD0", "U+2CD2", "U+2CD4", "U+2CD6",
      "U+2CD8", "U+2CDA", "U+2CDC", "U+2CDE", "U+2CE0", "U+2CE2", "U+2CEB",
      "U+2CED", "U+2CF2", "U+A640", "U+A642", "U+A644", "U+A646", "U+A648",
      "U+A64A", "U+A64C", "U+A64E", "U+A650", "U+A652", "U+A654", "U+A656",
      "U+A658", "U+A65A", "U+A65C", "U+A65E", "U+A660", "U+A662", "U+A664",
      "U+A666", "U+A668", "U+A66A", "U+A66C", "U+A680", "U+A682", "U+A684",
      "U+A686", "U+A688", "U+A68A", "U+A68C", "U+A68E", "U+A690", "U+A692",
      "U+A694", "U+A696", "U+A698", "U+A69A", "U+A722", "U+A724", "U+A726",
      "U+A728", "U+A72A", "U+A72C", "U+A72E", "U+A732", "U+A734", "U+A736",
      "U+A738", "U+A73A", "U+A73C", "U+A73E", "U+A740", "U+A742", "U+A744",
      "U+A746", "U+A748", "U+A74A", "U+A74C", "U+A74E", "U+A750", "U+A752",
      "U+A754", "U+A756", "U+A758", "U+A75A", "U+A75C", "U+A75E", "U+A760",
      "U+A762", "U+A764", "U+A766", "U+A768", "U+A76A", "U+A76C", "U+A76E",
      "U+A779", "U+A77B", "U+A77D", "U+A77E", "U+A780", "U+A782", "U+A784",
      "U+A786", "U+A78B", "U+A78D", "U+A790", "U+A792", "U+A796", "U+A798",
      "U+A79A", "U+A79C", "U+A79E", "U+A7A0", "U+A7A2", "U+A7A4", "U+A7A6",
      "U+A7A8", "U+A7AA", "U+A7AB", "U+A7AC", "U+A7AD", "U+A7AE", "U+A7B0",
      "U+A7B1", "U+A7B2", "U+A7B3", "U+A7B4", "U+A7B6", "U+A7B8", "U+A7BA",
      "U+A7BC", "U+A7BE", "U+A7C0", "U+A7C2", "U+A7C4", "U+A7C5", "U+A7C6",
      "U+A7C7", "U+A7C9", "U+A7D0", "U+A7D6", "U+A7D8", "U+A7F5", "U+FF21",
      "U+FF22", "U+FF23", "U+FF24", "U+FF25", "U+FF26", "U+FF27", "U+FF28",
      "U+FF29", "U+FF2A", "U+FF2B", "U+FF2C", "U+FF2D", "U+FF2E", "U+FF2F",
      "U+FF30", "U+FF31", "U+FF32", "U+FF33", "U+FF34", "U+FF35", "U+FF36",
      "U+FF37", "U+FF38", "U+FF39", "U+FF3A", "U+10400", "U+10401", "U+10402",
      "U+10403", "U+10404", "U+10405", "U+10406", "U+10407", "U+10408",
      "U+10409", "U+1040A", "U+1040B", "U+1040C", "U+1040D", "U+1040E",
      "U+1040F", "U+10410", "U+10411", "U+10412", "U+10413", "U+10414",
      "U+10415", "U+10416", "U+10417", "U+10418", "U+10419", "U+1041A",
      "U+1041B", "U+1041C", "U+1041D", "U+1041E", "U+1041F", "U+10420",
      "U+10421", "U+10422", "U+10423", "U+10424", "U+10425", "U+10426",
      "U+10427", "U+104B0", "U+104B1", "U+104B2", "U+104B3", "U+104B4",
      "U+104B5", "U+104B6", "U+104B7", "U+104B8", "U+104B9", "U+104BA",
      "U+104BB", "U+104BC", "U+104BD", "U+104BE", "U+104BF", "U+104C0",
      "U+104C1", "U+104C2", "U+104C3", "U+104C4", "U+104C5", "U+104C6",
      "U+104C7", "U+104C8", "U+104C9", "U+104CA", "U+104CB", "U+104CC",
      "U+104CD", "U+104CE", "U+104CF", "U+104D0", "U+104D1", "U+104D2",
      "U+104D3", "U+10570", "U+10571", "U+10572", "U+10573", "U+10574",
      "U+10575", "U+10576", "U+10577", "U+10578", "U+10579", "U+1057A",
      "U+1057C", "U+1057D", "U+1057E", "U+1057F", "U+10580", "U+10581",
      "U+10582", "U+10583", "U+10584", "U+10585", "U+10586", "U+10587",
      "U+10588", "U+10589", "U+1058A", "U+1058C", "U+1058D", "U+1058E",
      "U+1058F", "U+10590", "U+10591", "U+10592", "U+10594", "U+10595",
      "U+10C80", "U+10C81", "U+10C82", "U+10C83", "U+10C84", "U+10C85",
      "U+10C86", "U+10C87", "U+10C88", "U+10C89", "U+10C8A", "U+10C8B",
      "U+10C8C", "U+10C8D", "U+10C8E", "U+10C8F", "U+10C90", "U+10C91",
      "U+10C92", "U+10C93", "U+10C94", "U+10C95", "U+10C96", "U+10C97",
      "U+10C98", "U+10C99", "U+10C9A", "U+10C9B", "U+10C9C", "U+10C9D",
      "U+10C9E", "U+10C9F", "U+10CA0", "U+10CA1", "U+10CA2", "U+10CA3",
      "U+10CA4", "U+10CA5", "U+10CA6", "U+10CA7", "U+10CA8", "U+10CA9",
      "U+10CAA", "U+10CAB", "U+10CAC", "U+10CAD", "U+10CAE", "U+10CAF",
      "U+10CB0", "U+10CB1", "U+10CB2", "U+118A0", "U+118A1", "U+118A2",
      "U+118A3", "U+118A4", "U+118A5", "U+118A6", "U+118A7", "U+118A8",
      "U+118A9", "U+118AA", "U+118AB", "U+118AC", "U+118AD", "U+118AE",
      "U+118AF", "U+118B0", "U+118B1", "U+118B2", "U+118B3", "U+118B4",
      "U+118B5", "U+118B6", "U+118B7", "U+118B8", "U+118B9", "U+118BA",
      "U+118BB", "U+118BC", "U+118BD", "U+118BE", "U+118BF", "U+16E40",
      "U+16E41", "U+16E42", "U+16E43", "U+16E44", "U+16E45", "U+16E46",
      "U+16E47", "U+16E48", "U+16E49", "U+16E4A", "U+16E4B", "U+16E4C",
      "U+16E4D", "U+16E4E", "U+16E4F", "U+16E50", "U+16E51", "U+16E52",
      "U+16E53", "U+16E54", "U+16E55", "U+16E56", "U+16E57", "U+16E58",
      "U+16E59", "U+16E5A", "U+16E5B", "U+16E5C", "U+16E5D", "U+16E5E",
      "U+16E5F", "U+1E900", "U+1E901", "U+1E902", "U+1E903", "U+1E904",
      "U+1E905", "U+1E906", "U+1E907", "U+1E908", "U+1E909", "U+1E90A",
      "U+1E90B", "U+1E90C", "U+1E90D", "U+1E90E", "U+1E90F", "U+1E910",
      "U+1E911", "U+1E912", "U+1E913", "U+1E914", "U+1E915", "U+1E916",
      "U+1E917", "U+1E918", "U+1E919", "U+1E91A", "U+1E91B", "U+1E91C",
      "U+1E91D", "U+1E91E", "U+1E91F", "U+1E920", "U+1E921">>

Lower ==
    <<"a", "b", "c", "d", "e", "f", "g", "h", "i", "j", "k", "l", "m", "n",
      "o", "p", "q", "r", "s", "t", "u", "v", "w", "x", "y", "z", "U+00E0",
      "U+00E1", "U+00E2", "U+00E3", "U+00E4", "U+00E5", "U+00E6", "U+00E7",
      "U+00E8", "U+00E9", "U+00EA", "U+00EB", "U+00EC", "U+00ED", "U+00EE",
      "U+00EF", "U+00F0", "U+00F1", "U+00F2", "U+00F3", "U+00F4", "U+00F5",
      "U+00F6", "U+00F8", "U+00F9", "U+00FA", "U+00FB", "U+00FC", "U+00FD",
      "U+00FE", "U+0101", "U+0103", "U+0105", "U+0107", "U+0109", "U+010B",
      "U+010D", "U+010F", "U+0111", "U+0113", "U+0115", "U+0117", "U+0119",
      "U+011B", "U+011D", "U+011F", "U+0121", "U+0123", "U+0125", "U+0127",
      "U+0129", "U+012B", "U+012D", "U+012F", "U+0133", "U+0135", "U+0137",
      "U+013A", "U+013C", "U+013E", "U+0140", "U+0142", "U+0144", "U+0146",
      "U+0148", "U+014B", "U+014D", "U+014F", "U+0151", "U+0153", "U+0155",
      "U+0157", "U+0159", "U+015B", "U+015D", "U+015F", "U+0161", "U+0163",
      "U+0165", "U+0167", "U+0169", "U+016B", "U+016D", "U+016F", "U+0171",
      "U+0173", "U+0175", "U+0177", "U+00FF", "U+017A", "U+017C", "U+017E",
      "U+0253", "U+0183", "U+0185", "U+0254", "U+0188", "U+0256", "U+0257",
      "U+018C", "U+01DD", "U+0259", "U+025B", "U+0192", "U+0260", "U+0263",
      "U+0269", "U+0268", "U+0199", "U+026F", "U+0272", "U+0275", "U+01A1",
      "U+01A3", "U+01A5", "U+0280", "U+01A8", "U+0283", "U+01AD", "U+0288",
      "U+01B0", "U+028A", "U+028B", "U+01B4", "U+01B6", "U+0292", "U+01B9",
      "U+01BD", "U+01C6", "U+01C6", "U+01C9", "U+01C9", "U+01CC", "U+01CC",
      "U+01CE", "U+01D0", "U+01D2", "U+01D4", "U+01D6", "U+01D8", "U+01DA",
      "U+01DC", "U+01DF", "U+01E1", "U+01E3", "U+01E5", "U+01E7", "U+01E9",
      "U+01EB", "U+01ED", "U+01EF", "U+01F3", "U+01F3", "U+01F5", "U+0195",
      "U+01BF", "U+01F9", "U+01FB", "U+01FD", "U+01FF", "U+0201", "U+0203",
      "U+0205", "U+0207", "U+0209", "U+020B", "U+020D", "U+020F", "U+0211",
      "U+0213", "U+0215", "U+0217", "U+0219", "U+021B", "U+021D", "U+021F",
      "U+019E", "U+0223", "U+0225", "U+0227", "U+0229", "U+022B", "U+022D",
      "U+022F", "U+0231", "U+0233", "U+2C65", "U+023C", "U+019A", "U+2C66",
      "U+0242", "U+0180", "U+0289", "U+028C", "U+0247", "U+0249", "U+024B",
      "U+024D", "U+024F", "U+0371", "U+0373", "U+0377", "U+03F3", "U+03AC",
      "U+03AD", "U+03AE", "U+03AF", "U+03CC", "U+03CD", "U+03CE", "U+03B1",
      "U+03B2", "U+03B3", "U+03B4", "U+03B5", "U+03B6", "U+03B7", "U+03B8",
      "U+03B9", "U+03BA", "U+03BB", "U+03BC", "U+03BD", "U+03BE", "U+03BF",
      "U+03C0", "U+03C1", "U+03C3", "U+03C4", "U+03C5", "U+03C6", "U+03C7",
      "U+03C8", "U+03C9", "U+03CA", "U+03CB", "U+03D7", "U+03D9", "U+03DB",
      "U+03DD", "U+03DF", "U+03E1", "U+03E3", "U+03E5", "U+03E7", "U+03E9",
      "U+03EB", "U+03ED", "U+03EF", "U+03B8", "U+03F8", "U+03F2", "U+03FB",
      "U+037B", "U+037C", "U+037D", "U+0450", "U+0451", "U+0452", "U+0453",
      "U+0454", "U+0455", "U+0456", "U+0457", "U+0458", "U+0459", "U+045A",
      "U+045B", "U+045C", "U+045D", "U+045E", "U+045F", "U+0430", "U+0431",
      "U+0432", "U+0433", "U+0434", "U+0435", "U+0436", "U+0437", "U+0438",
      "U+0439", "U+043A", "U+043B", "U+043C", "U+043D", "U+043E", "U+043F",
      "U+0440", "U+0441", "U+0442", "U+0443", "U+0444", "U+0445", "U+0446",
      "U+0447", "U+0448", "U+0449", "U+044A", "U+044B", "U+044C", "U+044D",
      "U+044E", "U+044F", "U+0461", "U+0463", "U+0465", "U+0467", "U+0469",
      "U+046B", "U+046D", "U+046F", "U+0471", "U+0473", "U+0475", "U+0477",
      "U+0479", "U+047B", "U+047D", "U+047F", "U+0481", "U+048B", "U+048D",
      "U+048F", "U+0491", "U+0493", "U+0495", "U+0497", "U+0499", "U+049B",
      "U+049D", "U+049F", "U+04A1", "U+04A3", "U+04A5", "U+04A7", "U+04A9",
      "U+04AB", "U+04AD", "U+04AF", "U+04B1", "U+04B3", "U+04B5", "U+04B7",
      "U+04B9", "U+04BB", "U+04BD", "U+04BF", "U+04CF", "U+04C2", "U+04C4",
      "U+04C6", "U+04C8", "U+04CA", "U+04CC", "U+04CE", "U+04D1", "U+04D3",
      "U+04D5", "U+04D7", "U+04D9", "U+04DB", "U+04DD", "U+04DF", "U+04E1",
      "U+04E3", "U+04E5", "U+04E7", "U+04E9", "U+04EB", "U+04ED", "U+04EF",
      "U+04F1", "U+04F3", "U+04F5", "U+04F7", "U+04F9", "U+04FB", "U+04FD",
      "U+04FF", "U+0501", "U+0503", "U+0505", "U+0507", "U+0509", "U+050B",
      "U+050D", "U+050F", "U+0511", "U+0513", "U+0515", "U+0517", "U+0519",
      "U+051B", "U+051D", "U+051F", "U+0521", "U+0523", "U+0525", "U+0527",
      "U+0529", "U+052B", "U+052D", "U+052F", "U+0561", "U+0562", "U+0563",
      "U+0564", "U+0565", "U+0566", "U+0567", "U+0568", "U+0569", "U+056A",
      "U+056B", "U+056C", "U+056D", "U+056E", "U+056F", "U+0570", "U+0571",
      "U+0572", "U+0573", "U+0574", "U+0575", "U+0576", "U+0577", "U+0578",
      "U+0579", "U+057A", "U+057B", "U+057C", "U+057D", "U+057E", "U+057F",
      "U+0580", "U+0581", "U+0582", "U+0583", "U+0584", "U+0585", "U+0586",
      "U+2D00", "U+2D01", "U+2D02", "U+2D03", "U+2D04", "U+2D05", "U+2D06",
      "U+2D07", "U+2D08", "U+2D09", "U+2D0A", "U+2D0B", "U+2D0C", "U+2D0D",
      "U+2D0E", "U+2D0F", "U+2D10", "U+2D11", "U+2D12", "U+2D13", "U+2D14",
      "U+2D15", "U+2D16", "U+2D17", "U+2D18", "U+2D19", "U+2D1A", "U+2D1B",
      "U+2D1C", "U+2D1D", "U+2D1E", "U+2D1F", "U+2D20", "U+2D21", "U+2D22",
      "U+2D23", "U+2D24", "U+2D25", "U+2D27", "U+2D2D", "U+AB70", "U+AB71",
      "U+AB72", "U+AB73", "U+AB74", "U+AB75", "U+AB76", "U+AB77", "U+AB78",
      "U+AB79", "U+AB7A", "U+AB7B", "U+AB7C", "U+AB7D", "U+AB7E", "U+AB7F",
      "U+AB80", "U+AB81", "U+AB82", "U+AB83", "U+AB84", "U+AB85", "U+AB86",
      "U+AB87", "U+AB88", "U+AB89", "U+AB8A", "U+AB8B", "U+AB8C", "U+AB8D",
      "U+AB8E", "U+AB8F", "U+AB90", "U+AB91", "U+AB92", "U+AB93", "U+AB94",
      "U+AB95", "U+AB96", "U+AB97", "U+AB98", "U+AB99", "U+AB9A", "U+AB9B",
      "U+AB9C", "U+AB9D", "U+AB9E", "U+AB9F", "U+ABA0", "U+ABA1", "U+ABA2",
      "U+ABA3", "U+ABA4", "U+ABA5", "U+ABA6", "U+ABA7", "U+ABA8", "U+ABA9",
      "U+ABAA", "U+ABAB", "U+ABAC", "U+ABAD", "U+ABAE", "U+ABAF", "U+ABB0",
      "U+ABB1", "U+ABB2", "U+ABB3", "U+ABB4", "U+ABB5", "U+ABB6", "U+ABB7",
      "U+ABB8", "U+ABB9", "U+ABBA", "U+ABBB", "U+ABBC", "U+ABBD", "U+ABBE",
      "U+ABBF", "U+13F8", "U+13F9", "U+13FA", "U+13FB", "U+13FC", "U+13FD",
      "U+10D0", "U+10D1", "U+10D2", "U+10D3", "U+10D4", "U+10D5", "U+10D6",
      "U+10D7", "U+10D8", "U+10D9", "U+10DA", "U+10DB", "U+10DC", "U+10DD",
      "U+10DE", "U+10DF", "U+10E0", "U+10E1", "U+10E2", "U+10E3", "U+10E4",
      "U+10E5", "U+10E6", "U+10E7", "U+10E8", "U+10E9", "U+10EA", "U+10EB",
      "U+10EC", "U+10ED", "U+10EE", "U+10EF", "U+10F0", "U+10F1", "U+10F2",
      "U+10F3", "U+10F4", "U+10F5", "U+10F6", "U+10F7", "U+10F8", "U+10F9",
      "U+10FA", "U+10FD", "U+10FE", "U+10FF", "U+1E01", "U+1E03", "U+1E05",
      "U+1E07", "U+1E09", "U+1E0B", "U+1E0D", "U+1E0F", "U+1E11", "U+1E13",
      "U+1E15", "U+1E17", "U+1E19", "U+1E1B", "U+1E1D", "U+1E1F", "U+1E21",
      "U+1E23", "U+1E25", "U+1E27", "U+1E29", "U+1E2B", "U+1E2D", "U+1E2F",
      "U+1E31", "U+1E33", "U+1E35", "U+1E37", "U+1E39", "U+1E3B", "U+1E3D",
      "U+1E3F", "U+1E41", "U+1E43", "U+1E45", "U+1E47", "U+1E49", "U+1E4B",
      "U+1E4D", "U+1E4F", "U+1E51", "U+1E53", "U+1E55", "U+1E57", "U+1E59",
      "U+1E5B", "U+1E5D", "U+1E5F", "U+1E61", "U+1E63", "U+1E65", "U+1E67",
      "U+1E69", "U+1E6B", "U+1E6D", "U+1E6F", "U+1E71", "U+1E73", "U+1E75",
      "U+1E77", "U+1E79", "U+1E7B", "U+1E7D", "U+1E7F", "U+1E81", "U+1E83",
      "U+1E85", "U+1E87", "U+1E89", "U+1E8B", "U+1E8D", "U+1E8F", "U+1E91",
      "U+1E93", "U+1E95", "U+00DF", "U+1EA1", "U+1EA3", "U+1EA5", "U+1EA7",
      "U+1EA9", "U+1EAB", "U+1EAD", "U+1EAF", "U+1EB1", "U+1EB3", "U+1EB5",
      "U+1EB7", "U+1EB9", "U+1EBB", "U+1EBD", "U+1EBF", "U+1EC1", "U+1EC3",
      "U+1EC5", "U+1EC7", "U+1EC9", "U+1ECB", "U+1ECD", "U+1ECF", "U+1ED1",
      "U+1ED3", "U+1ED5", "U+1ED7", "U+1ED9", "U+1EDB", "U+1EDD", "U+1EDF",
      "U+1EE1", "U+1EE3", "U+1EE5", "U+1EE7", "U+1EE9", "U+1EEB", "U+1EED",
      "U+1EEF", "U+1EF1", "U+1EF3", "U+1EF5", "U+1EF7", "U+1EF9", "U+1EFB",
      "U+1EFD", "U+1EFF", "U+1F00", "U+1F01", "U+1F02", "U+1F03", "U+1F04",
      "U+1F05", "U+1F06", "U+1F07", "U+1F10", "U+1F11", "U+1F12", "U+1F13",
      "U+1F14", "U+1F15", "U+1F20", "U+1F21", "U+1F22", "U+1F23", "U+1F24",
      "U+1F25", "U+1F26", "U+1F27", "U+1F30", "U+1F31", "U+1F32", "U+1F33",
      "U+1F34", "U+1F35", "U+1F36", "U+1F37", "U+1F40", "U+1F41", "U+1F42",
      "U+1F43", "U+1F44", "U+1F45", "U+1F51", "U+1F53", "U+1F55", "U+1F57",
      "U+1F60", "U+1F61", "U+1F62", "U+1F63", "U+1F64", "U+1F65", "U+1F66",
      "U+1F67", "U+1F80", "U+1F81", "U+1F82", "U+1F83", "U+1F84", "U+1F85",
      "U+1F86", "U+1F87", "U+1F90", "U+1F91", "U+1F92", "U+1F93", "U+1F94",
      "U+1F95", "U+1F96", "U+1F97", "U+1FA0", "U+1FA1", "U+1FA2", "U+1FA3",
      "U+1FA4", "U+1FA5", "U+1FA6", "U+1FA7", "U+1FB0", "U+1FB1", "U+1F70",
      "U+1F71", "U+1FB3", "U+1F72", "U+1F73", "U+1F74", "U+1F75", "U+1FC3",
      "U+1FD0", "U+1FD1", "U+1F76", "U+1F77", "U+1FE0", "U+1FE1", "U+1F7A",
      "U+1F7B", "U+1FE5", "U+1F78", "U+1F79", "U+1F7C", "U+1F7D", "U+1FF3",
      "U+03C9", "k", "U+00E5", "U+214E", "U+2170", "U+2171", "U+2172",
      "U+2173", "U+2174", "U+2175", "U+2176", "U+2177", "U+2178", "U+2179",
      "U+217A", "U+217B", "U+217C", "U+217D", "U+217E", "U+217F", "U+2184",
      "U+24D0", "U+24D1", "U+24D2", "U+24D3", "U+24D4", "U+24D5", "U+24D6",
      "U+24D7", "U+24D8", "U+24D9", "U+24DA", "U+24DB", "U+24DC", "U+24DD",
      "U+24DE", "U+24DF", "U+24E0", "U+24E1", "U+24E2", "U+24E3", "U+24E4",
      "U+24E5", "U+24E6", "U+24E7", "U+24E8", "U+24E9", "U+2C30", "U+2C31",
      "U+2C32", "U+2C33", "U+2C34", "U+2C35", "U+2C36", "U+2C37", "U+2C38",
      "U+2C39", "U+2C3A", "U+2C3B", "U+2C3C", "U+2C3D", "U+2C3E", "U+2C3F",
      "U+2C40", "U+2C41", "U+2C42", "U+2C43", "U+2C44", "U+2C45", "U+2C46",
      "U+2C47", "U+2C48", "U+2C49", "U+2C4A", "U+2C4B", "U+2C4C", "U+2C4D",
      "U+2C4E", "U+2C4F", "U+2C50", "U+2C51", "U+2C52", "U+2C53", "U+2C54",
      "U+2C55", "U+2C56", "U+2C57", "U+2C58", "U+2C59", "U+2C5A", "U+2C5B",
      "U+2C5C", "U+2C5D", "U+2C5E", "U+2C5F", "U+2C61", "U+026B", "U+1D7D",
      "U+027D", "U+2C68", "U+2C6A", "U+2C6C", "U+0251", "U+0271", "U+0250",
      "U+0252", "U+2C73", "U+2C76", "U+023F", "U+0240", "U+2C81", "U+2C83",
      "U+2C85", "U+2C87", "U+2C89", "U+2C8B", "U+2C8D", "U+2C8F", "U+2C91",
      "U+2C93", "U+2C95", "U+2C97", "U+2C99", "U+2C9B", "U+2C9D", "U+2C9F",
      "U+2CA1", "U+2CA3", "U+2CA5", "U+2CA7", "U+2CA9", "U+2CAB", "U+2CAD",
      "U+2CAF", "U+2CB1", "U+2CB3", "U+2CB5", "U+2CB7", "U+2CB9", "U+2CBB",
      "U+2CBD", "U+2CBF", "U+2CC1", "U+2CC3", "U+2CC5", "U+2CC7", "U+2CC9",
      "U+2CCB", "U+2CCD", "U+2CCF", "U+2CD1", "U+2CD3", "U+2CD5", "U+2CD7",
      "U+2CD9", "U+2CDB", "U+2CDD", "U+2CDF", "U+2CE1", "U+2CE3", "U+2CEC",
      "U+2CEE", "U+2CF3", "U+A641", "U+A643", "U+A645", "U+A647", "U+A649",
      "U+A64B", "U+A64D", "U+A64F", "U+A651", "U+A653", "U+A655", "U+A657",
      "U+A659", "U+A65B", "U+A65D", "U+A65F", "U+A661", "U+A663", "U+A665",
      "U+A667", "U+A669", "U+A66B", "U+A66D", "U+A681", "U+A683", "U+A685",
      "U+A687", "U+A689", "U+A68B", "U+A68D", "U+A68F", "U+A691", "U+A693",
      "U+A695", "U+A697", "U+A699", "U+A69B", "U+A723", "U+A725", "U+A727",
      "U+A729", "U+A72B", "U+A72D", "U+A72F", "U+A733", "U+A735", "U+A737",
      "U+A739", "U+A73B", "U+A73D", "U+A73F", "U+A741", "U+A743", "U+A745",
      "U+A747", "U+A749", "U+A74B", "U+A74D", "U+A74F", "U+A751", "U+A753",
      "U+A755", "U+A757", "U+A759", "U+A75B", "U+A75D", "U+A75F", "U+A761",
      "U+A763", "U+A765", "U+A767", "U+A769", "U+A76B", "U+A76D", "U+A76F",
      "U+A77A", "U+A77C", "U+1D79", "U+A77F", "U+A781", "U+A783", "U+A785",
      "U+A787", "U+A78C", "U+0265", "U+A791", "U+A793", "U+A797", "U+A799",
      "U+A79B", "U+A79D", "U+A79F", "U+A7A1", "U+A7A3", "U+A7A5", "U+A7A7",
      "U+A7A9", "U+0266", "U+025C", "U+0261", "U+026C", "U+026A", "U+029E",
      "U+0287", "U+029D", "U+AB53", "U+A7B5", "U+A7B7", "U+A7B9", "U+A7BB",
      "U+A7BD", "U+A7BF", "U+A7C1", "U+A7C3", "U+A794", "U+0282", "U+1D8E",
      "U+A7C8", "U+A7CA", "U+A7D1", "U+A7D7", "U+A7D9", "U+A7F6", "U+FF41",
      "U+FF42", "U+FF43", "U+FF44", "U+FF45", "U+FF46", "U+FF47", "U+FF48",
      "U+FF49", "U+FF4A", "U+FF4B", "U+FF4C", "U+FF4D", "U+FF4E", "U+FF4F",
      "U+FF50", "U+FF51", "U+FF52", "U+FF53", "U+FF54", "U+FF55", "U+FF56",
      "U+FF57", "U+FF58", "U+FF59", "U+FF5A", "U+10428", "U+10429", "U+1042A",
      "U+1042B", "U+1042C", "U+1042D", "U+1042E", "U+1042F", "U+10430",
      "U+10431", "U+10432", "U+10433", "U+10434", "U+10435", "U+10436",
      "U+10437", "U+10438", "U+10439", "U+1043A", "U+1043B", "U+1043C",
      "U+1043D", "U+1043E", "U+1043F", "U+10440", "U+10441", "U+10442",
      "U+10443", "U+10444", "U+10445", "U+10446", "U+10447", "U+10448",
      "U+10449", "U+1044A", "U+1044B", "U+1044C", "U+1044D", "U+1044E",
      "U+1044F", "U+104D8", "U+104D9", "U+104DA", "U+104DB", "U+104DC",
      "U+104DD", "U+104DE", "U+104DF", "U+104E0", "U+104E1", "U+104E2",
      "U+104E3", "U+104E4", "U+104E5", "U+104E6", "U+104E7", "U+104E8",
      "U+104E9", "U+104EA", "U+104EB", "U+104EC", "U+104ED", "U+104EE",
      "U+104EF", "U+104F0", "U+104F1", "U+104F2", "U+104F3", "U+104F4",
      "U+104F5", "U+104F6", "U+104F7", "U+104F8", "U+104F9", "U+104FA",
      "U+104FB", "U+10597", "U+10598", "U+10599", "U+1059A", "U+1059B",
      "U+1059C", "U+1059D", "U+1059E", "U+1059F", "U+105A0", "U+105A1",
      "U+105A3", "U+105A4", "U+105A5", "U+105A6", "U+105A7", "U+105A8",
      "U+105A9", "U+105AA", "U+105AB", "U+105AC", "U+105AD", "U+105AE",
      "U+105AF", "U+105B0", "U+105B1", "U+105B3", "U+105B4", "U+105B5",
      "U+105B6", "U+105B7", "U+105B8", "U+105B9", "U+105BB", "U+105BC",
      "U+10CC0", "U+10CC1", "U+10CC2", "U+10CC3", "U+10CC4", "U+10CC5",
      "U+10CC6", "U+10CC7", "U+10CC8", "U+10CC9", "U+10CCA", "U+10CCB",
      "U+10CCC", "U+10CCD", "U+10CCE", "U+10CCF", "U+10CD0", "U+10CD1",
      "U+10CD2", "U+10CD3", "U+10CD4", "U+10CD5", "U+10CD6", "U+10CD7",
      "U+10CD8", "U+10CD9", "U+10CDA", "U+10CDB", "U+10CDC", "U+10CDD",
      "U+10CDE", "U+10CDF", "U+10CE0", "U+10CE1", "U+10CE2", "U+10CE3",
      "U+10CE4", "U+10CE5", "U+10CE6", "U+10CE7", "U+10CE8", "U+10CE9",
      "U+10CEA", "U+10CEB", "U+10CEC", "U+10CED", "U+10CEE", "U+10CEF",
      "U+10CF0", "U+10CF1", "U+10CF2", "U+118C0", "U+118C1", "U+118C2",
      "U+118C3", "U+118C4", "U+118C5", "U+118C6", "U+118C7", "U+118C8",
      "U+118C9", "U+118CA", "U+118CB", "U+118CC", "U+118CD", "U+118CE",
      "U+118CF", "U+118D0", "U+118D1", "U+118D2", "U+118D3", "U+118D4",
      "U+118D5", "U+118D6", "U+118D7", "U+118D8", "U+118D9", "U+118DA",
      "U+118DB", "U+118DC", "U+118DD", "U+118DE", "U+118DF", "U+16E60",
      "U+16E61", "U+16E62", "U+16E63", "U+16E64", "U+16E65", "U+16E66",
      "U+16E67", "U+16E68", "U+16E69", "U+16E6A", "U+16E6B", "U+16E6C",
      "U+16E6D", "U+16E6E", "U+16E6F", "U+16E70", "U+16E71", "U+16E72",
      "U+16E73", "U+16E74", "U+16E75", "U+16E76", "U+16E77", "U+16E78",
      "U+16E79", "U+16E7A", "U+16E7B", "U+16E7C", "U+16E7D", "U+16E7E",
      "U+16E7F", "U+1E922", "U+1E923", "U+1E924", "U+1E925", "U+1E926",
      "U+1E927", "U+1E928", "U+1E929", "U+1E92A", "U+1E92B", "U+1E92C",
      "U+1E92D", "U+1E92E", "U+1E92F", "U+1E930", "U+1E931", "U+1E932",
      "U+1E933", "U+1E934", "U+1E935", "U+1E936", "U+1E937", "U+1E938",
      "U+1E939", "U+1E93A", "U+1E93B", "U+1E93C", "U+1E93D", "U+1E93E",
      "U+1E93F", "U+1E940", "U+1E941", "U+1E942", "U+1E943">>

\* c.lower() of one character, a capital sigma and LATIN CAPITAL LETTER I
\* WITH DOT ABOVE apart.
LowerChar(c) ==
    IF Len(c) = 1
    THEN IF \E i \in 1..26 : Upper[i] = c
         THEN Lower[CHOOSE i \in 1..26 : Upper[i] = c]
         ELSE c
    ELSE IF \E i \in DOMAIN Upper : Upper[i] = c
         THEN Lower[CHOOSE i \in DOMAIN Upper : Upper[i] = c]
         ELSE c

\* The code points, in ranges, of the cased characters that are not case
\* ignorable, and below of the case ignorable ones.
Cased ==
    <<<<65, 90>>, <<97, 122>>, <<170, 170>>, <<181, 181>>, <<186, 186>>,
      <<192, 214>>, <<216, 246>>, <<248, 442>>, <<444, 447>>, <<452, 659>>,
      <<661, 687>>, <<880, 883>>, <<886, 887>>, <<891, 893>>, <<895, 895>>,
      <<902, 902>>, <<904, 906>>, <<908, 908>>, <<910, 929>>, <<931, 1013>>,
      <<1015, 1153>>, <<1162, 1327>>, <<1329, 1366>>, <<1376, 1416>>,
      <<4256, 4293>>, <<4295, 4295>>, <<4301, 4301>>, <<4304, 4346>>,
      <<4349, 4351>>, <<5024, 5109>>, <<5112, 5117>>, <<7296, 7304>>,
      <<7312, 7354>>, <<7357, 7359>>, <<7424, 7467>>, <<7531, 7543>>,
      <<7545, 7578>>, <<7680, 7957>>, <<7960, 7965>>, <<7968, 8005>>,
      <<8008, 8013>>, <<8016, 8023>>, <<8025, 8025>>, <<8027, 8027>>,
      <<8029, 8029>>, <<8031, 8061>>, <<8064, 8116>>, <<8118, 8124>>,
      <<8126, 8126>>, <<8130, 8132>>, <<8134, 8140>>, <<8144, 8147>>,
      <<8150, 8155>>, <<8160, 8172>>, <<8178, 8180>>, <<8182, 8188>>,
      <<8450, 8450>>, <<8455, 8455>>, <<8458, 8467>>, <<8469, 8469>>,
      <<8473, 8477>>, <<8484, 8484>>, <<8486, 8486>>, <<8488, 8488>>,
      <<8490, 8493>>, <<8495, 8500>>, <<8505, 8505>>, <<8508, 8511>>,
      <<8517, 8521>>, <<8526, 8526>>, <<8544, 8575>>, <<8579, 8580>>,
      <<9398, 9449>>, <<11264, 11387>>, <<11390, 11492>>, <<11499, 11502>>,
      <<11506, 11507>>, <<11520, 11557>>, <<11559, 11559>>, <<11565, 11565>>,
      <<42560, 42605>>, <<42624, 42651>>, <<42786, 42863>>, <<42865, 42887>>,
      <<42891, 42894>>, <<42896, 42954>>, <<42960, 42961>>, <<42963, 42963>>,
      <<42965, 42969>>, <<42997, 42998>>, <<43002, 43002>>, <<43824, 43866>>,
      <<43872, 43880>>, <<43888, 43967>>, <<64256, 64262>>, <<64275, 64279>>,
      <<65313, 65338>>, <<65345, 65370>>, <<66560, 66639>>, <<66736, 66771>>,
      <<66776, 66811>>, <<66928, 66938>>, <<66940, 66954>>, <<66956, 66962>>,
      <<66964, 66965>>, <<66967, 66977>>, <<66979, 66993>>, <<66995, 67001>>,
      <<67003, 67004>>, <<68736, 68786>>, <<68800, 68850>>, <<71840, 71903>>,
      <<93760, 93823>>, <<119808, 119892>>, <<119894, 119964>>,
      <<119966, 119967>>, <<119970, 119970>>, <<119973, 119974>>,
      <<119977, 119980>>, <<119982, 119993>>, <<119995, 119995>>,
      <<119997, 120003>>, <<120005, 120069>>, <<120071, 120074>>,
      <<120077, 120084>>, <<120086, 120092>>, <<120094, 120121>>,
      <<120123, 120126>>, <<120128, 120132>>, <<120134, 120134>>,
      <<120138, 120144>>, <<120146, 120485>>, <<120488, 120512>>,
      <<120514, 120538>>, <<120540, 120570>>, <<120572, 120596>>,
      <<120598, 120628>>, <<120630, 120654>>, <<120656, 120686>>,
      <<120688, 120712>>, <<120714, 120744>>, <<120746, 120770>>,
      <<120772, 120779>>, <<122624, 122633>>, <<122635, 122654>>,
      <<125184, 125251>>, <<127280, 127305>>, <<127312, 127337>>,
      <<127344, 127369>>>>

Ignorable ==
    <<<<39, 39>>, <<46, 46>>, <<58, 58>>, <<94, 94>>, <<96, 96>>,
      <<168, 168>>, <<173, 173>>, <<175, 175>>, <<180, 180>>, <<183, 184>>,
      <<688, 879>>, <<884, 885>>, <<890, 890>>, <<900, 901>>, <<903, 903>>,
      <<1155, 1161>>, <<1369, 1369>>, <<1375, 1375>>, <<1425, 1469>>,
      <<1471, 1471>>, <<1473, 1474>>, <<1476, 1477>>, <<1479, 1479>>,
      <<1524, 1524>>, <<1536, 1541>>, <<1552, 1562>>, <<1564, 1564>>,
      <<1600, 1600>>, <<1611, 1631>>, <<1648, 1648>>, <<1750, 1757>>,
      <<1759, 1768>>, <<1770, 1773>>, <<1807, 1807>>, <<1809, 1809>>,
      <<1840, 1866>>, <<1958, 1968>>, <<2027, 2037>>, <<2042, 2042>>,
      <<2045, 2045>>, <<2070, 2093>>, <<2137, 2139>>, <<2184, 2184>>,
      <<2192, 2193>>, <<2200, 2207>>, <<2249, 2306>>, <<2362, 2362>>,
      <<2364, 2364>>, <<2369, 2376>>, <<2381, 2381>>, <<2385, 2391>>,
      <<2402, 2403>>, <<2417, 2417>>, <<2433, 2433>>, <<2492, 2492>>,
      <<2497, 2500>>, <<2509, 2509>>, <<2530, 2531>>, <<2558, 2558>>,
      <<2561, 2562>>, <<2620, 2620>>, <<2625, 2626>>, <<2631, 2632>>,
      <<2635, 2637>>, <<2641, 2641>>, <<2672, 2673>>, <<2677, 2677>>,
      <<2689, 2690>>, <<2748, 2748>>, <<2753, 2757>>, <<2759, 2760>>,
      <<2765, 2765>>, <<2786, 2787>>, <<2810, 2815>>, <<2817, 2817>>,
      <<2876, 2876>>, <<2879, 2879>>, <<2881, 2884>>, <<2893, 2893>>,
      <<2901, 2902>>, <<2914, 2915>>, <<2946, 2946>>, <<3008, 3008>>,
      <<3021, 3021>>, <<3072, 3072>>, <<3076, 3076>>, <<3132, 3132>>,
      <<3134, 3136>>, <<3142, 3144>>, <<3146, 3149>>, <<3157, 3158>>,
      <<3170, 3171>>, <<3201, 3201>>, <<3260, 3260>>, <<3263, 3263>>,
      <<3270, 3270>>, <<3276, 3277>>, <<3298, 3299>>, <<3328, 3329>>,
      <<3387, 3388>>, <<3393, 3396>>, <<3405, 3405>>, <<3426, 3427>>,
      <<3457, 3457>>, <<3530, 3530>>, <<3538, 3540>>, <<3542, 3542>>,
      <<3633, 3633>>, <<3636, 3642>>, <<3654, 3662>>, <<3761, 3761>>,
      <<3764, 3772>>, <<3782, 3782>>, <<3784, 3789>>, <<3864, 3865>>,
      <<3893, 3893>>, <<3895, 3895>>, <<3897, 3897>>, <<3953, 3966>>,
      <<3968, 3972>>, <<3974, 3975>>, <<3981, 3991>>, <<3993, 4028>>,
      <<4038, 4038>>, <<4141, 4144>>, <<4146, 4151>>, <<4153, 4154>>,
      <<4157, 4158>>, <<4184, 4185>>, <<4190, 4192>>, <<4209, 4212>>,
      <<4226, 4226>>, <<4229, 4230>>, <<4237, 4237>>, <<4253, 4253>>,
      <<4348, 4348>>, <<4957, 4959>>, <<5906, 5908>>, <<5938, 5939>>,
      <<5970, 5971>>, <<6002, 6003>>, <<6068, 6069>>, <<6071, 6077>>,
      <<6086, 6086>>, <<6089, 6099>>, <<6103, 6103>>, <<6109, 6109>>,
      <<6155, 6159>>, <<6211, 6211>>, <<6277, 6278>>, <<6313, 6313>>,
      <<6432, 6434>>, <<6439, 6440>>, <<6450, 6450>>, <<6457, 6459>>,
      <<6679, 6680>>, <<6683, 6683>>, <<6742, 6742>>, <<6744, 6750>>,
      <<6752, 6752>>, <<6754, 6754>>, <<6757, 6764>>, <<6771, 6780>>,
      <<6783, 6783>>, <<6823, 6823>>, <<6832, 6862>>, <<6912, 6915>>,
      <<6964, 6964>>, <<6966, 6970>>, <<6972, 6972>>, <<6978, 6978>>,
      <<7019, 7027>>, <<7040, 7041>>, <<7074, 7077>>, <<7080, 7081>>,
      <<7083, 7085>>, <<7142, 7142>>, <<7144, 7145>>, <<7149, 7149>>,
      <<7151, 7153>>, <<7212, 7219>>, <<7222, 7223>>, <<7288, 7293>>,
      <<7376, 7378>>, <<7380, 7392>>, <<7394, 7400>>, <<7405, 7405>>,
      <<7412, 7412>>, <<7416, 7417>>, <<7468, 7530>>, <<7544, 7544>>,
      <<7579, 7679>>, <<8125, 8125>>, <<8127, 8129>>, <<8141, 8143>>,
      <<8157, 8159>>, <<8173, 8175>>, <<8189, 8190>>, <<8203, 8207>>,
      <<8216, 8217>>, <<8228, 8228>>, <<8231, 8231>>, <<8234, 8238>>,
      <<8288, 8292>>, <<8294, 8303>>, <<8305, 8305>>, <<8319, 8319>>,
      <<8336, 8348>>, <<8400, 8432>>, <<11388, 11389>>, <<11503, 11505>>,
      <<11631, 11631>>, <<11647, 11647>>, <<11744, 11775>>, <<11823, 11823>>,
      <<12293, 12293>>, <<12330, 12333>>, <<12337, 12341>>, <<12347, 12347>>,
      <<12441, 12446>>, <<12540, 12542>>, <<40981, 40981>>, <<42232, 42237>>,
      <<42508, 42508>>, <<42607, 42610>>, <<42612, 42621>>, <<42623, 42623>>,
      <<42652, 42655>>, <<42736, 42737>>, <<42752, 42785>>, <<42864, 42864>>,
      <<42888, 42890>>, <<42994, 42996>>, <<43000, 43001>>, <<43010, 43010>>,
      <<43014, 43014>>, <<43019, 43019>>, <<43045, 43046>>, <<43052, 43052>>,
      <<43204, 43205>>, <<43232, 43249>>, <<43263, 43263>>, <<43302, 43309>>,
      <<43335, 43345>>, <<43392, 43394>>, <<43443, 43443>>, <<43446, 43449>>,
      <<43452, 43453>>, <<43471, 43471>>, <<43493, 43494>>, <<43561, 43566>>,
      <<43569, 43570>>, <<43573, 43574>>, <<43587, 43587>>, <<43596, 43596>>,
      <<43632, 43632>>, <<43644, 43644>>, <<43696, 43696>>, <<43698, 43700>>,
      <<43703, 43704>>, <<43710, 43711>>, <<43713, 43713>>, <<43741, 43741>>,
      <<43756, 43757>>, <<43763, 43764>>, <<43766, 43766>>, <<43867, 43871>>,
      <<43881, 43883>>, <<44005, 44005>>, <<44008, 44008>>, <<44013, 44013>>,
      <<64286, 64286>>, <<64434, 64450>>, <<65024, 65039>>, <<65043, 65043>>,
      <<65056, 65071>>, <<65106, 65106>>, <<65109, 65109>>, <<65279, 65279>>,
      <<65287, 65287>>, <<65294, 65294>>, <<65306, 65306>>, <<65342, 65342>>,
      <<65344, 65344>>, <<65392, 65392>>, <<65438, 65439>>, <<65507, 65507>>,
      <<65529, 65531>>, <<66045, 66045>>, <<66272, 66272>>, <<66422, 66426>>,
      <<67456, 67461>>, <<67463, 67504>>, <<67506, 67514>>, <<68097, 68099>>,
      <<68101, 68102>>, <<68108, 68111>>, <<68152, 68154>>, <<68159, 68159>>,
      <<68325, 68326>>, <<68900, 68903>>, <<69291, 69292>>, <<69446, 69456>>,
      <<69506, 69509>>, <<69633, 69633>>, <<69688, 69702>>, <<69744, 69744>>,
      <<69747, 69748>>, <<69759, 69761>>, <<69811, 69814>>, <<69817, 69818>>,
      <<69821, 69821>>, <<69826, 69826>>, <<69837, 69837>>, <<69888, 69890>>,
      <<69927, 69931>>, <<69933, 69940>>, <<70003, 70003>>, <<70016, 70017>>,
      <<70070, 70078>>, <<70089, 70092>>, <<70095, 70095>>, <<70191, 70193>>,
      <<70196, 70196>>, <<70198, 70199>>, <<70206, 70206>>, <<70367, 70367>>,
      <<70371, 70378>>, <<70400, 70401>>, <<70459, 70460>>, <<70464, 70464>>,
      <<70502, 70508>>, <<70512, 70516>>, <<70712, 70719>>, <<70722, 70724>>,
      <<70726, 70726>>, <<70750, 70750>>, <<70835, 70840>>, <<70842, 70842>>,
      <<70847, 70848>>, <<70850, 70851>>, <<71090, 71093>>, <<71100, 71101>>,
      <<71103, 71104>>, <<71132, 71133>>, <<71219, 71226>>, <<71229, 71229>>,
      <<71231, 71232>>, <<71339, 71339>>, <<71341, 71341>>, <<71344, 71349>>,
      <<71351, 71351>>, <<71453, 71455>>, <<71458, 71461>>, <<71463, 71467>>,
      <<71727, 71735>>, <<71737, 71738>>, <<71995, 71996>>, <<71998, 71998>>,
      <<72003, 72003>>, <<72148, 72151>>, <<72154, 72155>>, <<72160, 72160>>,
      <<72193, 72202>>, <<72243, 72248>>, <<72251, 72254>>, <<72263, 72263>>,
      <<72273, 72278>>, <<72281, 72283>>, <<72330, 72342>>, <<72344, 72345>>,
      <<72752, 72758>>, <<72760, 72765>>, <<72767, 72767>>, <<72850, 72871>>,
      <<72874, 72880>>, <<72882, 72883>>, <<72885, 72886>>, <<73009, 73014>>,
      <<73018, 73018>>, <<73020, 73021>>, <<73023, 73029>>, <<73031, 73031>>,
      <<73104, 73105>>, <<73109, 73109>>, <<73111, 73111>>, <<73459, 73460>>,
      <<78896, 78904>>, <<92912, 92916>>, <<92976, 92982>>, <<92992, 92995>>,
      <<94031, 94031>>, <<94095, 94111>>, <<94176, 94177>>, <<94179, 94180>>,
      <<110576, 110579>>, <<110581, 110587>>, <<110589, 110590>>,
      <<113821, 113822>>, <<113824, 113827>>, <<118528, 118573>>,
      <<118576, 118598>>, <<119143, 119145>>, <<119155, 119170>>,
      <<119173, 119179>>, <<119210, 119213>>, <<119362, 119364>>,
      <<121344, 121398>>, <<121403, 121452>>, <<121461, 121461>>,
      <<121476, 121476>>, <<121499, 121503>>, <<121505, 121519>>,
      <<122880, 122886>>, <<122888, 122904>>, <<122907, 122913>>,
      <<122915, 122916>>, <<122918, 122922>>, <<123184, 123197>>,
      <<123566, 123566>>, <<123628, 123631>>, <<125136, 125142>>,
      <<125252, 125259>>, <<127995, 127999>>, <<917505, 917505>>,
      <<917536, 917631>>, <<917760, 917999>>>>

\* The capital sigma at s[i] becomes the final small sigma: the nearest
\* character before it that is not case ignorable is cased, and the nearest
\* one after it, if there is one, is not.
final_sigma(s, i) ==
    LET within(c, ranges) ==
            \E n \in {ord(c)} :
                \E r \in DOMAIN ranges : ranges[r][1] <= n /\ n <= ranges[r][2]
        before == {j \in 1..(i - 1) : ~within(s[j], Ignorable)}
        after == {j \in (i + 1)..Len(s) : ~within(s[j], Ignorable)}
    IN /\ before # {}
       /\ within(s[CHOOSE j \in before : \A k \in before : k <= j], Cased)
       /\ after # {} => ~within(s[CHOOSE j \in after : \A k \in after : j <= k], Cased)

\* str.lower(): LATIN CAPITAL LETTER I WITH DOT ABOVE gives two characters.
lower(s) ==
    Flatten([i \in DOMAIN s |->
                IF s[i] = "U+0130" THEN <<"i", "U+0307">>
                ELSE IF s[i] = "U+03A3"
                     THEN <<IF final_sigma(s, i) THEN "U+03C2" ELSE "U+03C3">>
                ELSE <<LowerChar(s[i])>>])

\* Series.str.lower(): a missing cell stays missing.
str_lower(v) == IF v = NaN THEN NaN ELSE lower(v)

\* ------------------------------------------------------------------- json

\* The text json.dump(obj, f, indent=2) writes, character by character,
\* with the defaults ensure_ascii=True and allow_nan=True.

\* The escapes of a str: the character and the letter after the backslash.
ESCAPE_DCT ==
    <<<<"\"", "\"">>, <<"\\", "\\">>, <<"U+0008", "b">>, <<"U+000C", "f">>,
      <<"U+000A", "n">>, <<"U+000D", "r">>, <<"U+0009", "t">>>>

\* One character of a str as json writes it: its escape, itself when it is
\* printable ASCII, else \uXXXX in lower case hex (a surrogate pair above
\* U+FFFF).
encode_char(c) ==
    LET u(n) == <<"\\", "u">>
                \o [k \in 1..4 |->
                       LET d == (n \div (16 ^ (4 - k))) % 16
                       IN HEX[IF d < 10 THEN d + 1 ELSE d + 7]]
    IN IF (Len(c) = 1 /\ c \notin {"\"", "\\"}) \/ c = "U+0060" THEN <<c>>
       ELSE IF \E e \in DOMAIN ESCAPE_DCT : ESCAPE_DCT[e][1] = c
       THEN <<"\\", ESCAPE_DCT[CHOOSE e \in DOMAIN ESCAPE_DCT : ESCAPE_DCT[e][1] = c][2]>>
       ELSE IF ord(c) < 65536 THEN u(ord(c))
       ELSE u(55296 + ((ord(c) - 65536) \div 1024)) \o u(56320 + ((ord(c) - 65536) % 1024))

\* A scalar: None is written null, a float nan is written NaN, an int as
\* its decimal digits, a str between quotes (as it is when no character of
\* it needs an escape).
json_scalar(v) ==
    IF v = None THEN Chars("null")
    ELSE IF v = NaN THEN Chars("NaN")
    ELSE IF IsInt(v)
         THEN IF v[2] < 0 THEN <<"-">> \o str_of_nat(0 - v[2]) ELSE str_of_nat(v[2])
    ELSE IF \A i \in DOMAIN v : Len(v[i]) = 1 /\ v[i] \notin {"\"", "\\"}
         THEN <<"\"">> \o v \o <<"\"">>
    ELSE <<"\"">> \o Flatten([i \in DOMAIN v |-> encode_char(v[i])]) \o <<"\"">>

\* The line break of indent=2 in front of an item `level` containers deep.
NL(level) == <<"U+000A">> \o [i \in 1..(2 * level) |-> " "]

\* The keys of the dicts the program writes, in the order it inserts them
\* (lines 286-294, 143-146 and 151).
KEY_ORDER ==
    <<"discordUsername", "discordDisplayName", "discordId", "discordJoinDate",
      "discordCreationDate", "robloxUsername", "robloxId", "robloxCreationDate",
      "robloxAvatarUrl", "username", "displayName", "createdAt", "joinedAt", "error">>

\* A dict of scalars whose members are `level` containers deep.
json_object(d, level) ==
    LET keys == SelectSeq(KEY_ORDER, LAMBDA k : k \in DOMAIN d)
    IN IF keys = <<>> THEN Chars("{}")
       ELSE <<"{">>
            \o Flatten([i \in DOMAIN keys |->
                           (IF i = 1 THEN <<>> ELSE <<",">>)
                           \o NL(level) \o json_scalar(Chars(keys[i])) \o Chars(": ")
                           \o json_scalar(d[keys[i]])])
            \o NL(level - 1) \o <<"}">>

\* json.dump(combined_data, f, indent=2)
json_dump_list(records) ==
    IF records = <<>> THEN Chars("[]")
    ELSE <<"[">>
         \o Flatten([i \in DOMAIN records |->
                        (IF i = 1 THEN <<>> ELSE <<",">>)
                        \o NL(1) \o json_object(records[i], 2)])
         \o NL(0) \o <<"]">>

\* json.dump(discord_data, f, indent=2), a dict of dicts whose keys were
\* inserted in the order of `order`.
json_dump_dict(d, order) ==
    LET keys == SelectSeq(order, LAMBDA k : k \in DOMAIN d)
    IN IF keys = <<>> THEN Chars("{}")
       ELSE <<"{">>
            \o Flatten([i \in DOMAIN keys |->
                           (IF i = 1 THEN <<>> ELSE <<",">>)
                           \o NL(1) \o json_scalar(keys[i]) \o Chars(": ")
                           \o json_object(d[keys[i]], 2)])
            \o NL(0) \o <<"}">>

\* json.load: the decoder, over the two shapes the program reads (a list of
\* dicts of scalars, a dict of such dicts).  A step of it gives the value it
\* read and the position after it, or fails (JSONDecodeError).  The scalars
\* the program never writes are read as <<"True">>, <<"False">>, <<"inf">>,
\* <<"-inf">> and, for a number with a fraction or an exponent, <<"float">>
\* followed by the characters of the number.
Failed == [ok |-> FALSE, value |-> <<>>, next |-> 0]
Parsed(v, n) == [ok |-> TRUE, value |-> v, next |-> n]

tok(text, i) == IF i >= 1 /\ i <= Len(text) THEN text[i] ELSE "EOF"

\* The position of the first character at or after i that is not JSON
\* white space.
skip_ws(text, i) ==
    LET WS == {" ", "U+0009", "U+000A", "U+000D"}
    IN CHOOSE j \in i..(Len(text) + 1) :
          /\ tok(text, j) \notin WS
          /\ \A k \in i..(j - 1) : text[k] \in WS

\* scanstring: the str whose opening quote is before position i, read up to
\* the first quote that is not escaped.  A backslash opens an escape when an
\* even number of backslashes stands right before it; the character after
\* it, the four digits of \uXXXX and the low half of a surrogate pair are
\* part of an escape and give nothing of their own.  A control character,
\* an unknown escape and the end of the text fail.
scanstring(text, i) ==
    LET bs(k) == tok(text, k) = "\\"
        run(k) == k - CHOOSE m \in i..k : /\ \A x \in m..(k - 1) : bs(x)
                                          /\ m = i \/ ~bs(m - 1)
        closes(k) == k > Len(text) \/ (text[k] = "\"" /\ run(k) % 2 = 0)
        end == CHOOSE k \in i..(Len(text) + 1) : closes(k) /\ \A m \in i..(k - 1) : ~closes(m)
        opens(k) == k \in i..(end - 1) /\ bs(k) /\ run(k) % 2 = 0
        is_hex4(k) == \A m \in k..(k + 3) : tok(text, m) \in Range(HEX)
        hex4(k) == hex_value(SubSeq(text, k, k + 3))
        uni(k) == opens(k) /\ tok(text, k + 1) = "u" /\ is_hex4(k + 2)
        high(k) == uni(k) /\ hex4(k + 2) \in 55296..56319
        low(k) == uni(k) /\ hex4(k + 2) \in 56320..57343
        inside(k) == \/ opens(k - 1)
                     \/ \E n \in 2..5 : uni(k - n)
                     \/ low(k) /\ high(k - 6)
        known(c) == \E x \in DOMAIN ESCAPE_DCT : ESCAPE_DCT[x][2] = c
        bad(k) == /\ ~inside(k)
                  /\ IF opens(k)
                     THEN ~(tok(text, k + 1) = "/" \/ known(tok(text, k + 1)) \/ uni(k))
                     ELSE ord(text[k]) < 32
        char(k) ==
            IF inside(k) THEN <<>>
            ELSE IF ~opens(k) THEN <<text[k]>>
            ELSE IF high(k) /\ low(k + 6)
                 THEN <<chr(65536 + (hex4(k + 2) - 55296) * 1024
                            + (hex4(k + 8) - 56320))>>
            ELSE IF uni(k) THEN <<chr(hex4(k + 2))>>
            ELSE IF tok(text, k + 1) = "/" THEN <<"/">>
            ELSE <<ESCAPE_DCT[CHOOSE x \in DOMAIN ESCAPE_DCT :
                                 ESCAPE_DCT[x][2] = tok(text, k + 1)][1]>>
    IN IF end > Len(text) THEN Failed
       ELSE IF \A k \in i..(end - 1) : Len(text[k]) = 1 /\ text[k] # "\\"
            THEN Parsed(SubSeq(text, i, end - 1), end + 1)
       ELSE IF \E k \in i..(end - 1) : bad(k) THEN Failed
       ELSE Parsed(Flatten([k \in 1..(end - i) |-> char(i + k - 1)]), end + 1)

parse_string(text, i) ==
    IF tok(text, i) # "\"" THEN Failed ELSE scanstring(text, i + 1)

\* A number: -?(0|[1-9][0-9]*), then a fraction and an exponent if there
\* are any.  After a leading 0 the integer part is over.
parse_number(text, i) ==
    LET DIGITS == Range(DecimalRuns[1])
        run_end(k) == CHOOSE j \in k..(Len(text) + 1) :
                         /\ tok(text, j) \notin DIGITS
                         /\ \A m \in k..(j - 1) : text[m] \in DIGITS
        first == IF tok(text, i) = "-" THEN i + 1 ELSE i
        int_end == IF tok(text, first) = "0" THEN first + 1
                   ELSE IF tok(text, first) \in DIGITS THEN run_end(first)
                   ELSE first
        frac_end == IF tok(text, int_end) = "." /\ tok(text, int_end + 1) \in DIGITS
                    THEN run_end(int_end + 1) ELSE int_end
        exp_digits == IF tok(text, frac_end + 1) \in {"+", "-"} THEN frac_end + 2
                      ELSE frac_end + 1
        end == IF tok(text, frac_end) \in {"e", "E"} /\ tok(text, exp_digits) \in DIGITS
               THEN run_end(exp_digits) ELSE frac_end
        n == int_of_id(SubSeq(text, first, int_end - 1))
    IN IF int_end = first THEN Failed
       ELSE IF end = int_end THEN Parsed(PyInt(IF first > i THEN 0 - n ELSE n), end)
       ELSE Parsed(<<"float">> \o SubSeq(text, i, end - 1), end)

json_parse_scalar(text, i) ==
    LET t == tok(text, i)
        word(w) == i + Len(w) - 1 <= Len(text) /\ SubSeq(text, i, i + Len(w) - 1) = Chars(w)
    IN IF t = "\"" THEN parse_string(text, i)
       ELSE IF word("null") THEN Parsed(None, i + 4)
       ELSE IF word("true") THEN Parsed(<<"True">>, i + 4)
       ELSE IF word("false") THEN Parsed(<<"False">>, i + 5)
       ELSE IF word("NaN") THEN Parsed(NaN, i + 3)
       ELSE IF word("Infinity") THEN Parsed(<<"inf">>, i + 8)
       ELSE IF word("-Infinity") THEN Parsed(<<"-inf">>, i + 9)
       ELSE IF t = "-" \/ t \in Range(DecimalRuns[1]) THEN parse_number(text, i)
       ELSE Failed

\* The results below are taken through a bound variable, {e : x \in {v}}
\* being the set of the one value e has for x = v, so that a result is
\* worked out once however often it is used.

\* A key, a colon and a value (an object if `nested`) from position i on:
\* the key, the value and the position of what follows them.
RECURSIVE json_parse_object(_, _)
parse_pair(text, i, nested) ==
    CHOOSE pair \in
        {IF ~k.ok \/ tok(text, skip_ws(text, k.next)) # ":" THEN Failed
         ELSE CHOOSE kv \in
                 {IF ~v.ok THEN Failed
                  ELSE Parsed(<<k.value, v.value>>, skip_ws(text, v.next)) :
                     v \in {IF nested
                            THEN json_parse_object(text, skip_ws(text, skip_ws(text, k.next) + 1))
                            ELSE json_parse_scalar(text, skip_ws(text, skip_ws(text, k.next) + 1))}} :
                 TRUE :
            k \in {parse_string(text, i)}} : TRUE

\* The pairs of an object from the key at position i on, added to acc; a
\* key becomes the field name it spells.
RECURSIVE parse_pairs(_, _, _)
parse_pairs(text, i, acc) ==
    LET name(key) == LET RECURSIVE join(_)
                         join(n) == IF n = 0 THEN "" ELSE join(n - 1) \o key[n]
                     IN join(Len(key))
    IN CHOOSE pairs \in
          {IF ~p.ok THEN Failed
           ELSE IF tok(text, p.next) = ","
                THEN parse_pairs(text, skip_ws(text, p.next + 1),
                                 Put(acc, name(p.value[1]), p.value[2]))
           ELSE IF tok(text, p.next) = "}"
                THEN Parsed(Put(acc, name(p.value[1]), p.value[2]), p.next + 1)
           ELSE Failed :
              p \in {parse_pair(text, i, FALSE)}} : TRUE

json_parse_object(text, i) ==
    LET first == skip_ws(text, i + 1)
    IN IF tok(text, i) # "{" THEN Failed
       ELSE IF tok(text, first) = "}" THEN Parsed(EmptyDict, first + 1)
       ELSE parse_pairs(text, first, EmptyDict)

\* The items of a list from position i on, added to acc.
RECURSIVE parse_items(_, _, _)
parse_items(text, i, acc) ==
    CHOOSE items \in
        {IF ~o.ok THEN Failed
         ELSE IF tok(text, skip_ws(text, o.next)) = ","
              THEN parse_items(text, skip_ws(text, skip_ws(text, o.next) + 1),
                               Append(acc, o.value))
         ELSE IF tok(text, skip_ws(text, o.next)) = "]"
              THEN Parsed(Append(acc, o.value), skip_ws(text, o.next) + 1)
         ELSE Failed :
            o \in {json_parse_object(text, i)}} : TRUE

\* The entries of a dict of dicts from the key at position i on, added to
\* acc.
RECURSIVE parse_entries(_, _, _)
parse_entries(text, i, acc) ==
    CHOOSE entries \in
        {IF ~p.ok THEN Failed
         ELSE IF tok(text, p.next) = ","
              THEN parse_entries(text, skip_ws(text, p.next + 1),
                                 Put(acc, p.value[1], p.value[2]))
         ELSE IF tok(text, p.next) = "}"
              THEN Parsed(Put(acc, p.value[1], p.value[2]), p.next + 1)
         ELSE Failed :
            p \in {parse_pair(text, i, TRUE)}} : TRUE

\* A whole text: white space, the value, white space and nothing after it
\* (else JSONDecodeError).
json_parse_list(text) ==
    LET first == skip_ws(text, skip_ws(text, 1) + 1)
    IN IF tok(text, skip_ws(text, 1)) # "[" THEN Failed
       ELSE CHOOSE list \in
               {IF r.ok /\ skip_ws(text, r.next) = Len(text) + 1 THEN r ELSE Failed :
                   r \in {IF tok(text, first) = "]" THEN Parsed(<<>>, first + 1)
                          ELSE parse_items(text, first, <<>>)}} : TRUE

json_parse_dict(text) ==
    LET first == skip_ws(text, skip_ws(text, 1) + 1)
    IN IF tok(text, skip_ws(text, 1)) # "{" THEN Failed
       ELSE CHOOSE dict \in
               {IF r.ok /\ skip_ws(text, r.next) = Len(text) + 1 THEN r ELSE Failed :
                   r \in {IF tok(text, first) = "}" THEN Parsed(EmptyDict, first + 1)
                          ELSE parse_entries(text, first, EmptyDict)}} : TRUE

\* A value that is a list or None (what load_cached_data returns).
PyList(l) == [is_none |-> FALSE, list |-> l]
NoneList == [is_none |-> TRUE, list |-> <<>>]

\* a == b on two lists of dicts: a float nan is equal to nothing, itself
\* included.
py_eq_list(a, b) ==
    /\ Len(a) = Len(b)
    /\ \A i \in DOMAIN a :
          /\ DOMAIN a[i] = DOMAIN b[i]
          /\ \A k \in DOMAIN a[i] : a[i][k] = b[i][k] /\ a[i][k] # NaN

\* ------------------------------------------------------- program constants

DELIM == "U+30FB"
N_A == Chars("N/A")
ROBLOX_AVATAR_PLACEHOLDER == Chars("https://placehold.co/150x150/5865F2/FFFFFF?text=N/A")
USER_NOT_FOUND == [error |-> Chars("User not found")]

\* ------------------------------------------------------------- users.csv

\* The cells the roster of the model is built from.  DiscordID is read with
\* dtype str: a digit string, one in Arabic-Indic digits (U+0663 is 3), one
\* padded with a tab, a non numeric one, a superscript two (a digit int()
\* does not read), a blank one (an ideographic space) and an empty cell
\* (nan).  The name columns hold a name or an empty cell.
RowSet ==
    {[DiscordID |-> <<"1">>, DiscordUsername |-> du, RobloxUsername |-> ru] :
        <<du, ru>> \in {<<<<"a", "l">>, <<"B", "o", "b">>>>,
                        <<<<"a", "l">>, <<"A", "U+03A3">>>>,
                        <<NaN, <<"B", "o", "b">>>>,
                        <<<<"a", "l">>, NaN>>}}
    \cup {[DiscordID |-> id, DiscordUsername |-> <<"a", "l">>,
           RobloxUsername |-> <<"B", "o", "b">>] :
            id \in {<<"U+0663">>, <<"U+0009", "1">>, <<"x">>, <<"U+00B2">>,
                    <<"U+3000">>, NaN}}

RECURSIVE SeqsUpTo(_, _)
SeqsUpTo(S, n) ==
    IF n = 0 THEN {<<>>}
    ELSE LET shorter == SeqsUpTo(S, n - 1)
         IN shorter \cup {Append(s, x) : s \in {t \in shorter : Len(t) = n - 1}, x \in S}

Rosters == SeqsUpTo(RowSet, MaxRows)

\* Series.dropna()
dropna(col) == SelectSeq(col, LAMBDA v : v # NaN)

\* Series.unique(): first occurrences, in order.
RECURSIVE unique(_)
unique(col) ==
    IF col = <<>> THEN <<>>
    ELSE LET init == unique(SubSeq(col, 1, Len(col) - 1))
             last == col[Len(col)]
         IN IF last \in Range(init) THEN init ELSE Append(init, last)

Column(df, name) == [i \in DOMAIN df |-> df[i][name]]

\* pd.read_csv(CSV_FILE_PATH, dtype={"DiscordID": str}) followed by
\* df_csv["DiscordID"] = df_csv["DiscordID"].str.strip()
read_csv(rows) ==
    [i \in DOMAIN rows |-> [rows[i] EXCEPT !.DiscordID = str_strip(rows[i].DiscordID)]]

\* df_csv["DiscordID"].dropna().unique().tolist()
target_ids_of(df) == unique(dropna(Column(df, "DiscordID")))

\* --------------------------------------------------------- display name

contains(s, c) == \E i \in DOMAIN s : s[i] = c

FirstIndex(s, c) == CHOOSE i \in DOMAIN s : s[i] = c /\ \A j \in 1..(i - 1) : s[j] # c

\* s.split(c, 1)
split1(s, c) ==
    IF contains(s, c)
    THEN LET i == FirstIndex(s, c)
         IN <<SubSeq(s, 1, i - 1), SubSeq(s, i + 1, Len(s))>>
    ELSE <<s>>

discord_display(raw_display_name, username, row_username) ==
    IF Truthy(raw_display_name) /\ contains(raw_display_name, DELIM)
    THEN LET parts == split1(raw_display_name, DELIM)
         IN IF Len(parts) > 1 THEN strip(parts[2]) ELSE raw_display_name
    ELSE Or(Or(Or(raw_display_name, username), row_username), N_A)

\* ------------------------------------------------------- reconciliation

\* The user name with the roster's own name left out of the chain.
discord_user_without_roster(discord_info, row) ==
    Or(Get(discord_info, "username"), N_A)

\* discord_info.get("username") or row["DiscordUsername"] or "N/A"
discord_user_of(discord_info, row) ==
    Or(Or(Get(discord_info, "username"), row.DiscordUsername), N_A)

\* One pass of the loop over df_csv.iterrows().
merged_record(row, discord_data_map, avatar_url_map, creation_date_map) ==
    LET discord_id == str(row.DiscordID)
        roblox_id == IF notna(row.RobloxID) THEN row.RobloxID ELSE None
        discord_info == GetOr(discord_data_map, discord_id, EmptyDict)
        raw_display_name == Get(discord_info, "displayName")
        discord_user == discord_user_of(discord_info, row)
        roblox_user == Or(row.RobloxUsername, N_A)
        avatar_url == IF Truthy(roblox_id) THEN Get(avatar_url_map, roblox_id)
                      ELSE ROBLOX_AVATAR_PLACEHOLDER
        roblox_date == IF Truthy(roblox_id) THEN Get(creation_date_map, roblox_id)
                       ELSE None
    IN [discordUsername |-> discord_user,
        discordDisplayName |->
            discord_display(raw_display_name, Get(discord_info, "username"),
                            row.DiscordUsername),
        discordId |-> discord_id,
        discordJoinDate |-> Get(discord_info, "joinedAt"),
        discordCreationDate |-> Get(discord_info, "createdAt"),
        robloxUsername |-> roblox_user,
        robloxId |-> Or(roblox_id, N_A),
        robloxCreationDate |-> roblox_date,
        robloxAvatarUrl |-> Or(avatar_url, ROBLOX_AVATAR_PLACEHOLDER)]

\* The loop keeping only the rows the chat fetch has member data for.
combine_matched_rows(df, discord_data_map, avatar_url_map, creation_date_map) ==
    LET all == [i \in DOMAIN df |->
                   merged_record(df[i], discord_data_map, avatar_url_map, creation_date_map)]
    IN SelectSeq(all, LAMBDA r : r.discordJoinDate # None)

combine(df, discord_data_map, avatar_url_map, creation_date_map) ==
    [i \in DOMAIN df |->
        merged_record(df[i], discord_data_map, avatar_url_map, creation_date_map)]

\* ------------------------------------------------------ Roblox helpers

\* int(user_id) of the string str(uid) gave for an int.
int_of_str(s) == PyInt(int_of_id(s))

\* [str(u) for u in usernames if u and pd.notna(u)]
valid_usernames(usernames) == SelectSeq(usernames, LAMBDA u : Truthy(u) /\ notna(u))

\* {user["requestedUsername"].lower(): user["id"] for user in data}
RECURSIVE id_map_of(_)
id_map_of(data) ==
    IF data = <<>> THEN EmptyDict
    ELSE LET user == data[Len(data)]
         IN Put(id_map_of(SubSeq(data, 1, Len(data) - 1)),
                lower(user.requestedUsername), user.id)

\* [str(uid) for uid in user_ids if uid and pd.notna(uid)]
valid_ids_of(user_ids) ==
    LET kept == SelectSeq(user_ids, LAMBDA uid : Truthy(uid) /\ notna(uid))
    IN [i \in DOMAIN kept |-> str_of_nat(kept[i][2])]

ROBLOX_BATCH == 100

\* The slice taken one id too long: valid_ids[i:i+101].
batch_ids_one_too_long(valid_ids, i) ==
    SubSeq(valid_ids, i + 1,
           IF i + ROBLOX_BATCH + 1 < Len(valid_ids) THEN i + ROBLOX_BATCH + 1
           ELSE Len(valid_ids))

\* valid_ids[i:i+100], i counted from 0 as in the code.
batch_ids_at(valid_ids, i) ==
    SubSeq(valid_ids, i + 1,
           IF i + ROBLOX_BATCH < Len(valid_ids) THEN i + ROBLOX_BATCH ELSE Len(valid_ids))

\* for avatar in data: avatar_map[avatar["targetId"]] = avatar["imageUrl"]
\* (the last entry for a targetId is the one that stays).
put_avatars(avatar_map, data) ==
    LET targets == {data[i].targetId : i \in DOMAIN data}
        last(t) == CHOOSE i \in DOMAIN data :
                      /\ data[i].targetId = t
                      /\ \A j \in DOMAIN data : data[j].targetId = t => j <= i
    IN [t \in DOMAIN avatar_map \cup targets |->
           IF t \in targets THEN data[last(t)].imageUrl ELSE avatar_map[t]]

\* One pass of the batch loop: the try block and its except.
avatar_batch(avatar_map, response) ==
    IF response.ok THEN put_avatars(avatar_map, response.data) ELSE avatar_map

\* The creation date loop giving up what it has when a request raises.
date_fetch_drops_earlier(dates_map, user_id, response) ==
    IF response.exc THEN Put(EmptyDict, int_of_str(user_id), None)
    ELSE IF response.status_code = 200
         THEN Put(dates_map, int_of_str(user_id), response.created)
         ELSE Put(dates_map, int_of_str(user_id), None)

\* One pass of the creation date loop: `response` is [exc |-> TRUE] for a
\* requests.RequestException, else it carries status_code and the body's "created".
date_fetch(dates_map, user_id, response) ==
    IF response.exc THEN Put(dates_map, int_of_str(user_id), None)
    ELSE IF response.status_code = 200
         THEN Put(dates_map, int_of_str(user_id), response.created)
         ELSE Put(dates_map, int_of_str(user_id), None)

\* ----------------------------------------------- the remote services

\* What the Roblox services of the model hold for an account: the id 7 for
\* Bob, 6 for the other name of the rosters (the names differ in length).
AccountId(username) == PyInt(4 + Len(username))
AvatarUrlOf(id) == Chars("url") \o str_of_nat(id[2])
CreatedOf(id) == Chars("2020-01-01T00:00:00Z") \o str_of_nat(id[2])

\* Answers of the username endpoint: an error, or any of the requested
\* users, in request order.
RECURSIVE SubSeqs(_)
SubSeqs(s) ==
    IF s = <<>> THEN {<<>>}
    ELSE LET rest == SubSeqs(Tail(s))
         IN rest \cup {<<Head(s)>> \o t : t \in rest}

IdResponses(usernames) ==
    {[ok |-> FALSE, data |-> <<>>]}
    \cup {[ok |-> TRUE,
           data |-> [i \in DOMAIN found |->
                        [requestedUsername |-> found[i], id |-> AccountId(found[i])]]] :
            found \in SubSeqs(valid_usernames(usernames))}

\* The answer with every requested user in it.
IdAll(usernames) ==
    [ok |-> TRUE,
     data |-> [i \in DOMAIN valid_usernames(usernames) |->
                  [requestedUsername |-> valid_usernames(usernames)[i],
                   id |-> AccountId(valid_usernames(usernames)[i])]]]

\* Answers of the avatar endpoint for one batch: an error; every requested
\* id with its image; the first id left out; the first id with no image
\* (imageUrl null); an id that was not requested added; a 200 whose body is
\* JSON but not an object (`body`), on which response.json().get raises
\* AttributeError, which is no requests.RequestException.
AvatarFull(batch_ids) ==
    [i \in DOMAIN batch_ids |->
        [targetId |-> int_of_str(batch_ids[i]),
         imageUrl |-> AvatarUrlOf(int_of_str(batch_ids[i]))]]

AvatarResponses(batch_ids) ==
    {[ok |-> FALSE, body |-> "none", data |-> <<>>],
     [ok |-> TRUE, body |-> "array", data |-> <<>>],
     [ok |-> TRUE, body |-> "object", data |-> AvatarFull(batch_ids)],
     [ok |-> TRUE, body |-> "object", data |-> Tail(AvatarFull(batch_ids))],
     [ok |-> TRUE, body |-> "object",
      data |-> <<[targetId |-> int_of_str(batch_ids[1]), imageUrl |-> None]>>
               \o Tail(AvatarFull(batch_ids))],
     [ok |-> TRUE, body |-> "object",
      data |-> Append(AvatarFull(batch_ids), [targetId |-> PyInt(0 - 1), imageUrl |-> Chars("url")])]}

\* Answers of the profile endpoint for one id.
DateResponses(user_id) ==
    {[exc |-> TRUE, status_code |-> 0, body |-> "none", created |-> None],
     [exc |-> FALSE, status_code |-> 404, body |-> "object", created |-> None],
     [exc |-> FALSE, status_code |-> 200, body |-> "array", created |-> None],
     [exc |-> FALSE, status_code |-> 200, body |-> "object", created |-> None],
     [exc |-> FALSE, status_code |-> 200, body |-> "object",
      created |-> CreatedOf(int_of_str(user_id))]}

\* What the chat service of the model holds for the member with id n.
MemberOf(n) ==
    [username |-> <<"m">> \o str_of_nat(n),
     displayName |-> IF n = 1 THEN <<"p", DELIM, " ", "n">> ELSE <<"n", "o">>,
     createdAt |-> Chars("2019-05-05T00:00:00") \o str_of_nat(n),
     joinedAt |-> Chars("2021-06-06T00:00:00") \o str_of_nat(n)]


\* ------------------------------------------------------------- the files

NoFile == [exists |-> FALSE, text |-> <<>>]
FileOf(text) == [exists |-> TRUE, text |-> text]

\* The with block ends and the file object is closed: the text json.dump
\* wrote, which the file object has kept in its buffer (every text of the
\* model is shorter than the buffer, 8192 characters), goes to the disk in
\* one write at the start of the file, over what the file holds there by
\* then.  Closing with nothing written leaves the file as it is.
flush(file, text) ==
    IF text = <<>> THEN file
    ELSE FileOf(text \o SubSeq(file.text, Len(text) + 1, Len(file.text)))

\* discord_data.json left by an earlier refresh.
StaleDiscordData ==
    [id \in {<<"1">>} |->
        [username |-> <<"o", "l", "d">>, displayName |-> <<"o">>,
         createdAt |-> Chars("2018-01-01T00:00:00"),
         joinedAt |-> Chars("2018-02-02T00:00:00")]]

\* combined_data.json left by an earlier refresh.
OldSnapshot ==
    combine(<<[DiscordID |-> <<"9">>, DiscordUsername |-> <<"z">>,
               RobloxUsername |-> NaN, RobloxID |-> NaN]>>,
            EmptyDict, EmptyDict, EmptyDict)

\* ------------------------------------------------------------------ state

VARIABLES
    secrets_set,        \* DISCORD_BOT_TOKEN and GUILD_ID are both set
    csv,                \* users.csv: [exists, rows, columns]
    faults,             \* the kinds of failure the services and the disk can show
    discordFile,        \* discord_data.json
    combinedFile,       \* combined_data.json
    pc,                 \* where refresh_all_data is
    outcome,            \* how refresh_all_data returned
    df_csv,
    target_discord_ids,
    client,             \* the disnake client: "none", "new", "connected", "closed"
    discord_data,       \* the dict fetch_discord_data fills
    idx,                \* position of the member loop in target_ids (from 1)
    fetch_exit,         \* how on_ready, or client.start, ended
    events,             \* per target id, in loop order: [id, outcome]
    discord_data_map,
    roblox_id_map,
    avatar_url_map,
    creation_date_map,
    combined_data,
    combined0,          \* combined_data.json as it was before the refresh
    r_pc,               \* where a page load's load_cached_data is
    r_result,           \* what load_cached_data found
    p_fn,               \* the Roblox helper that is running: "avatars" or "dates"
    p_user_ids,         \* its argument
    p_pc,               \* where it is
    p_i,                \* its loop position
    p_calls,            \* the id lists of the requests it has sent, in order
    p_responses,        \* the answers to them
    p_map,              \* avatar_map or dates_map
    calls,              \* the services the refresh has sent a request to
    id_fetch,           \* how the user name request of the refresh ended
    admin_password,     \* st.secrets.get("ADMIN_PASSWORD", "admin")
    password_input,     \* the text of the password field
    button,             \* the refresh button was clicked for this script run
    user_data,          \* what load_cached_data returned to the page
    view,               \* what the main page shows
    parked              \* the other session's refresh while this one's runs

env == <<secrets_set, csv, combined0, faults>>
files == <<discordFile, combinedFile>>
fetch == <<client, discord_data, idx, fetch_exit, events>>
locals == <<df_csv, target_discord_ids, discord_data_map, roblox_id_map,
            avatar_url_map, creation_date_map, combined_data>>
net == <<calls, id_fetch>>
page == <<admin_password, password_input, button>>
reader == <<r_pc, r_result, user_data, view>>
profile == <<p_fn, p_user_ids, p_pc, p_i, p_calls, p_responses, p_map>>
refresh == <<env, files, pc, outcome, fetch, locals, net>>
vars == <<refresh, reader, profile, page, parked>>

\* What no step of a refresh changes.
around == <<env, parked, reader, page>>

\* The columns the pipeline reads from users.csv.
COLUMNS == {"DiscordID", "DiscordUsername", "RobloxUsername"}

\* The rows of a file that has only `columns`; reading a cell of a column
\* the file does not have raises KeyError.
csv_rows(rows, columns) ==
    [i \in DOMAIN rows |->
        [c \in COLUMNS |-> IF c \in columns THEN rows[i][c] ELSE <<"KeyError">>]]

NoCsv == [exists |-> FALSE, rows |-> <<>>, columns |-> COLUMNS]

\* st.secrets.get("ADMIN_PASSWORD", "admin") when the secret is not set.
DEFAULT_ADMIN_PASSWORD == Chars("admin")

\* The failing outcomes of a step, when the world of this run shows failures
\* of its kind: "login" for the chat session (login, guild), "member" for a
\* member lookup, "usernames", "avatars" and "dates" for the three game
\* services, "io" for the disk.
may(kind, outcomes) == IF kind \in faults THEN outcomes ELSE {}

\* Nothing of a refresh has run.
NoRefreshYet ==
    /\ outcome = "running"
    /\ df_csv = <<>>
    /\ target_discord_ids = <<>>
    /\ client = "none"
    /\ discord_data = EmptyDict
    /\ idx = 0
    /\ fetch_exit = "none"
    /\ events = <<>>
    /\ discord_data_map = EmptyDict
    /\ roblox_id_map = EmptyDict
    /\ avatar_url_map = EmptyDict
    /\ creation_date_map = EmptyDict
    /\ combined_data = <<>>
    /\ calls = {}
    /\ id_fetch = "none"

\* No page load is reading the cache.
ReaderOff ==
    /\ r_pc = "off"
    /\ r_result = [kind |-> "none", data |-> <<>>]
    /\ user_data = NoneList
    /\ view = "none"

\* The operator has passed the password check and clicked the button: the
\* script run is at the call of refresh_all_data (line 347).
OperatorIn ==
    /\ admin_password = DEFAULT_ADMIN_PASSWORD
    /\ password_input = DEFAULT_ADMIN_PASSWORD
    /\ button = TRUE

\* No Roblox helper is running.
ProfileOff ==
    /\ p_fn = "none"
    /\ p_user_ids = <<>>
    /\ p_pc = "off"
    /\ p_i = 0
    /\ p_calls = <<>>
    /\ p_responses = <<>>
    /\ p_map = EmptyDict

\* The refresh of this session, as the record it is parked as.
Session ==
    [pc |-> pc, outcome |-> outcome, df_csv |-> df_csv,
     target_discord_ids |-> target_discord_ids, client |-> client,
     discord_data |-> discord_data, idx |-> idx, fetch_exit |-> fetch_exit,
     events |-> events, discord_data_map |-> discord_data_map,
     roblox_id_map |-> roblox_id_map, avatar_url_map |-> avatar_url_map,
     creation_date_map |-> creation_date_map, combined_data |-> combined_data,
     calls |-> calls, id_fetch |-> id_fetch,
     p_fn |-> p_fn, p_user_ids |-> p_user_ids, p_pc |-> p_pc, p_i |-> p_i,
     p_calls |-> p_calls, p_responses |-> p_responses, p_map |-> p_map]

\* A session at the call of refresh_all_data.
FreshSession ==
    [pc |-> "idle", outcome |-> "running", df_csv |-> <<>>,
     target_discord_ids |-> <<>>, client |-> "none",
     discord_data |-> EmptyDict, idx |-> 0, fetch_exit |-> "none",
     events |-> <<>>, discord_data_map |-> EmptyDict,
     roblox_id_map |-> EmptyDict, avatar_url_map |-> EmptyDict,
     creation_date_map |-> EmptyDict, combined_data |-> <<>>,
     calls |-> {}, id_fetch |-> "none",
     p_fn |-> "none", p_user_ids |-> <<>>, p_pc |-> "off", p_i |-> 0,
     p_calls |-> <<>>, p_responses |-> <<>>, p_map |-> EmptyDict]

\* No second session runs a refresh.
OtherOff == parked = [FreshSession EXCEPT !.pc = "off"]

InitFiles(rosters, column_sets) ==
    /\ secrets_set \in BOOLEAN
    /\ csv \in {NoCsv} \cup {[exists |-> TRUE, rows |-> csv_rows(r, cols), columns |-> cols] :
                               r \in rosters, cols \in column_sets}
    /\ discordFile \in {NoFile, FileOf(json_dump_dict(StaleDiscordData, <<<<"1">>>>))}
    /\ combinedFile \in {NoFile, FileOf(json_dump_list(OldSnapshot))}
    /\ combined0 = combinedFile
    /\ faults = {"login", "member", "usernames", "avatars", "dates", "io"}

InitRefresh(rosters) ==
    /\ InitFiles(rosters, {COLUMNS})
    /\ pc = "idle"
    /\ NoRefreshYet
    /\ OperatorIn

\* One refresh: the first of a dashboard, or one after an earlier refresh.
Init ==
    /\ InitRefresh(Rosters)
    /\ ReaderOff
    /\ ProfileOff
    /\ OtherOff

\* ------------------------------------------------------ refresh_all_data

Return(how) ==
    /\ pc' = "returned"
    /\ outcome' = how

\* Lines 189-208: the secrets, users.csv, the cleaned ids.  A file with no
\* DiscordID column raises KeyError at line 207, caught at line 308.
StartRefresh ==
    /\ pc = "idle"
    /\ IF ~secrets_set
       THEN Return("no_secrets") /\ UNCHANGED <<df_csv, target_discord_ids, client>>
       ELSE IF ~csv.exists
       THEN Return("no_csv") /\ UNCHANGED <<df_csv, target_discord_ids, client>>
       ELSE IF "DiscordID" \notin csv.columns
       THEN Return("critical_error") /\ UNCHANGED <<df_csv, target_discord_ids, client>>
       ELSE /\ df_csv' = read_csv(csv.rows)
            /\ target_discord_ids' = target_ids_of(read_csv(csv.rows))
            /\ client' = "new"
            /\ pc' = "start"
            /\ UNCHANGED outcome
    /\ UNCHANGED <<around, files, profile, net, discord_data, idx, fetch_exit,
                   events, discord_data_map, roblox_id_map, avatar_url_map,
                   creation_date_map, combined_data>>

\* ---------------------------------------------------- fetch_discord_data

\* await client.close()
close(c) == "closed"

\* on_ready with the close left to the normal path only: no finally.
on_ready_finally_absent(c) == c

\* The finally of on_ready: await client.close() on every way out of the try.
on_ready_finally(c) == close(c)

\* The try of on_ready is left, by its end, a return or an except clause:
\* the finally is next.
Finally(how) ==
    /\ pc' = "closing"
    /\ fetch_exit' = how

\* await client.start(bot_token): the bot logs in and on_ready runs, or the
\* login fails, or starting raises something else, and fetch_discord_data
\* returns to refresh_all_data.
ClientStart ==
    /\ pc = "start"
    /\ \E result \in {"ready"} \cup may("login", {"login_failure", "start_error"}) :
          IF result = "ready"
          THEN /\ client' = "connected"
               /\ pc' = "on_ready"
               /\ UNCHANGED fetch_exit
          ELSE /\ pc' = "load"
               /\ fetch_exit' = result
               /\ UNCHANGED client
    /\ calls' = calls \cup {"discord.login"}
    /\ UNCHANGED <<around, files, profile, id_fetch, outcome, discord_data, idx,
                   events, locals>>

\* on_ready up to the loop: the guild is found, is not found (close and
\* return), or the lookup raises (the except).
OnReady ==
    /\ pc = "on_ready"
    /\ \E result \in {"found"} \cup may("login", {"guild_not_found", "on_ready_error"}) :
          IF result = "found"
          THEN /\ pc' = "loop"
               /\ idx' = 1
               /\ UNCHANGED <<client, fetch_exit>>
          ELSE /\ client' = IF result = "guild_not_found" THEN close(client) ELSE client
               /\ Finally(result)
               /\ UNCHANGED idx
    /\ UNCHANGED <<around, files, profile, net, outcome, discord_data, events,
                   locals>>

\* if not user_id or not str(user_id).isdigit()
invalid_id(user_id) == ~Truthy(user_id) \/ ~isdigit(str(user_id))

\* The member loop tagging every failed lookup as not found.
record_member_tags_every_error(data, user_id, result) ==
    IF result = "ok" THEN Put(data, user_id, MemberOf(int_of_id(user_id)))
    ELSE Put(data, user_id, USER_NOT_FOUND)

\* The body of the try in the member loop, for each way guild.fetch_member
\* ends; a ValueError of int(user_id) is one of the other exceptions.
record_member(data, user_id, result) ==
    IF result = "ok" THEN Put(data, user_id, MemberOf(int_of_id(user_id)))
    ELSE IF result = "not_found" THEN Put(data, user_id, USER_NOT_FOUND)
    ELSE data

\* One pass of the member loop.  An id int() cannot read raises ValueError
\* before any lookup is sent, which line 154 catches like any other error
\* of the pass; "escape" is an exception that leaves the loop (it is caught
\* by on_ready's own except).  The event keeps whether a lookup was sent.
FetchMember ==
    /\ pc = "loop"
    /\ idx <= Len(target_discord_ids)
    /\ LET user_id == target_discord_ids[idx]
       IN IF invalid_id(user_id)
          THEN /\ events' = Append(events, [id |-> user_id, outcome |-> "skipped",
                                            lookup |-> FALSE])
               /\ idx' = idx + 1
               /\ UNCHANGED <<discord_data, pc, fetch_exit, calls>>
          ELSE IF int_raises(str(user_id))
          THEN /\ events' = Append(events, [id |-> user_id, outcome |-> "error",
                                            lookup |-> FALSE])
               /\ discord_data' = record_member(discord_data, user_id, "error")
               /\ idx' = idx + 1
               /\ UNCHANGED <<pc, fetch_exit, calls>>
          ELSE \E result \in {"ok"} \cup may("member", {"not_found", "http_error", "error",
                                                        "escape"}) :
                  /\ events' = Append(events, [id |-> user_id, outcome |-> result,
                                               lookup |-> TRUE])
                  /\ calls' = calls \cup {"discord.fetch_member"}
                  /\ IF result = "escape"
                     THEN /\ Finally("on_ready_error")
                          /\ UNCHANGED <<discord_data, idx>>
                     ELSE /\ discord_data' = record_member(discord_data, user_id, result)
                          /\ idx' = idx + 1
                          /\ UNCHANGED <<pc, fetch_exit>>
    /\ UNCHANGED <<around, files, profile, id_fetch, outcome, client, locals>>

\* Line 159: open(DISCORD_DATA_PATH, "w") truncates the file, or raises.
PersistOpen ==
    /\ pc = "loop"
    /\ idx > Len(target_discord_ids)
    /\ \E result \in {"opened"} \cup may("io", {"open_error"}) :
          IF result = "opened"
          THEN /\ discordFile' = FileOf(<<>>)
               /\ pc' = "persist"
               /\ UNCHANGED fetch_exit
          ELSE /\ Finally("open_error")
               /\ UNCHANGED discordFile
    /\ UNCHANGED <<around, combinedFile, profile, net, outcome, client, discord_data, idx,
                   events, locals>>

\* Lines 160-161: json.dump or the close of the with block fails (the disk
\* is full, say) with none or a part of the text on the disk; the error is
\* caught at line 163.
PersistFails ==
    /\ pc = "persist"
    /\ "io" \in faults
    /\ LET text == json_dump_dict(discord_data, target_discord_ids)
       IN \E n \in {0, Len(text) \div 2} :
             discordFile' = flush(discordFile, SubSeq(text, 1, n))
    /\ Finally("dump_error")
    /\ UNCHANGED <<around, combinedFile, profile, net, outcome, client, discord_data, idx,
                   events, locals>>

\* Lines 160-161: json.dump has written the mapping to the file object and
\* the with block closes it.
PersistDone ==
    /\ pc = "persist"
    /\ discordFile' = flush(discordFile, json_dump_dict(discord_data, target_discord_ids))
    /\ Finally("persisted")
    /\ UNCHANGED <<around, combinedFile, profile, net, outcome, client, discord_data, idx,
                   events, locals>>

\* Lines 166-179: the finally awaits client.close(), client.start returns
\* and fetch_discord_data returns.
CloseClient ==
    /\ pc = "closing"
    /\ client' = on_ready_finally(client)
    /\ pc' = "load"
    /\ UNCHANGED <<around, files, profile, net, outcome, discord_data, idx,
                   fetch_exit, events, locals>>

\* ------------------------------------------ refresh_all_data, continued

\* The mapping the fetch of this refresh filled, handed over in memory.
load_own_mapping(file, own) == own

\* Lines 217-218: discord_data_map is what discord_data.json holds now,
\* not the dict fetch_discord_data filled (`own`), which is dropped.
load_discord_data(file, own) == json_parse_dict(file.text).value

\* Lines 216-221: the intermediate file is read back if it exists; a file
\* that does not parse raises into the except of line 308.
LoadDiscordData ==
    /\ pc = "load"
    /\ IF discordFile.exists
       THEN IF json_parse_dict(discordFile.text).ok
            THEN /\ discord_data_map' = load_discord_data(discordFile, discord_data)
                 /\ pc' = "roblox"
                 /\ UNCHANGED outcome
            ELSE Return("critical_error") /\ UNCHANGED discord_data_map
       ELSE Return("no_discord_file") /\ UNCHANGED discord_data_map
    /\ UNCHANGED <<around, files, profile, net, fetch, df_csv, target_discord_ids,
                   roblox_id_map, avatar_url_map, creation_date_map, combined_data>>

\* df_csv["RobloxUsername"].dropna().unique().tolist()
roblox_usernames_of(df) == unique(dropna(Column(df, "RobloxUsername")))

\* .str on a column read with no string in it (every cell empty, so pandas
\* read it as float64) raises AttributeError.
str_accessor_raises(col) == col # <<>> /\ \A i \in DOMAIN col : col[i] = NaN

\* The ids mapped back under the user names as the roster spells them.
with_roblox_id_case_sensitive(df, id_map) ==
    [i \in DOMAIN df |->
        [DiscordID |-> df[i].DiscordID,
         DiscordUsername |-> df[i].DiscordUsername,
         RobloxUsername |-> df[i].RobloxUsername,
         RobloxID |-> GetOr(id_map, df[i].RobloxUsername, NaN)]]

\* df_csv["RobloxID"] = df_csv["RobloxUsername"].str.lower().map(roblox_id_map).astype('Int64')
with_roblox_id(df, id_map) ==
    [i \in DOMAIN df |->
        [DiscordID |-> df[i].DiscordID,
         DiscordUsername |-> df[i].DiscordUsername,
         RobloxUsername |-> df[i].RobloxUsername,
         RobloxID |-> GetOr(id_map, str_lower(df[i].RobloxUsername), NaN)]]

\* df_csv["RobloxID"].dropna().unique().tolist()
all_roblox_ids_of(df) == unique(dropna(Column(df, "RobloxID")))

\* get_roblox_ids keeping an id for every name when the request fails.
get_roblox_ids_guessing(usernames, response) ==
    IF valid_usernames(usernames) = <<>> THEN EmptyDict
    ELSE IF response.ok THEN id_map_of(response.data)
    ELSE id_map_of(IdAll(usernames).data)

\* get_roblox_ids(usernames), the POST answering `response`:
\* [ok |-> FALSE] is a requests.RequestException, else data is the "data" list.
get_roblox_ids(usernames, response) ==
    IF valid_usernames(usernames) = <<>> THEN EmptyDict
    ELSE IF response.ok THEN id_map_of(response.data)
    ELSE EmptyDict

\* A call of a Roblox helper with the ids of line 242.
Call(fn, user_ids) ==
    /\ p_fn' = fn
    /\ p_user_ids' = user_ids
    /\ p_pc' = "call"
    /\ p_i' = 0
    /\ p_calls' = <<>>
    /\ p_responses' = <<>>
    /\ p_map' = EmptyDict

\* Lines 227-246: the user names, the request for their ids (none when the
\* list is empty), the ids mapped back into the frame, and the call of
\* get_roblox_avatar_urls.  A file with no RobloxUsername column raises
\* KeyError at line 227, a column with no name in it AttributeError at 239.
FetchRobloxIds ==
    /\ pc = "roblox"
    /\ IF "RobloxUsername" \notin csv.columns
       THEN /\ Return("critical_error")
            /\ UNCHANGED <<df_csv, roblox_id_map, net, profile>>
       ELSE
       LET roblox_usernames == roblox_usernames_of(df_csv)
       IN \E id_response \in {IdAll(roblox_usernames)}
                              \cup may("usernames", IdResponses(roblox_usernames)) :
            LET id_map == IF roblox_usernames = <<>> THEN EmptyDict
                          ELSE get_roblox_ids(roblox_usernames, id_response)
                df == with_roblox_id(df_csv, id_map)
            IN /\ roblox_id_map' = id_map
               /\ id_fetch' = IF roblox_usernames = <<>> THEN "skipped"
                              ELSE IF id_response.ok THEN "answered" ELSE "failed"
               /\ calls' = IF valid_usernames(roblox_usernames) = <<>> THEN calls
                           ELSE calls \cup {"roblox.usernames"}
               /\ IF str_accessor_raises(Column(df_csv, "RobloxUsername"))
                  THEN /\ Return("critical_error")
                       /\ UNCHANGED <<df_csv, profile>>
                  ELSE /\ df_csv' = df
                       /\ Call("avatars", all_roblox_ids_of(df))
                       /\ pc' = "avatars"
                       /\ UNCHANGED outcome
    /\ UNCHANGED <<around, files, fetch, target_discord_ids, discord_data_map,
                   avatar_url_map, creation_date_map, combined_data>>

\* Lines 54-60 and 76-82: valid_ids, and the return of {} when it is empty.
ProfileStart ==
    /\ p_pc = "call"
    /\ p_pc' = IF valid_ids_of(p_user_ids) = <<>> THEN "done" ELSE "loop"
    /\ p_i' = IF p_fn = "avatars" THEN 0 ELSE 1
    /\ UNCHANGED <<around, files, pc, outcome, fetch, locals, net, p_fn,
                   p_user_ids, p_calls, p_responses, p_map>>

\* Lines 85-106: one batch of get_roblox_avatar_urls, the request and the
\* wait after it; an answer whose body is no JSON object raises at line 99
\* past the except of line 103, out of the function.
AvatarBatch ==
    /\ p_pc = "loop"
    /\ p_fn = "avatars"
    /\ p_i < Len(valid_ids_of(p_user_ids))
    /\ LET batch_ids == batch_ids_at(valid_ids_of(p_user_ids), p_i)
       IN \E response \in {[ok |-> TRUE, body |-> "object", data |-> AvatarFull(batch_ids)]}
                           \cup may("avatars", AvatarResponses(batch_ids)) :
             /\ p_calls' = Append(p_calls, batch_ids)
             /\ p_responses' = Append(p_responses, response)
             /\ IF response.ok /\ response.body # "object"
                THEN p_pc' = "raised" /\ p_map' = EmptyDict
                ELSE p_pc' = p_pc /\ p_map' = avatar_batch(p_map, response)
    /\ p_i' = p_i + ROBLOX_BATCH
    /\ calls' = calls \cup {"roblox.avatars"}
    /\ UNCHANGED <<around, files, pc, outcome, fetch, locals, id_fetch, p_fn,
                   p_user_ids>>

\* Lines 61-71: one id of get_roblox_creation_dates, the request and the
\* wait after it; a 200 answer whose body is no JSON object raises at line
\* 66 past the except of line 69, out of the function.
DateFetch ==
    /\ p_pc = "loop"
    /\ p_fn = "dates"
    /\ p_i <= Len(valid_ids_of(p_user_ids))
    /\ LET user_id == valid_ids_of(p_user_ids)[p_i]
       IN \E response \in
             {[exc |-> FALSE, status_code |-> 200, body |-> "object",
               created |-> CreatedOf(int_of_str(user_id))]}
             \cup may("dates", DateResponses(user_id)) :
             /\ p_calls' = Append(p_calls, <<user_id>>)
             /\ p_responses' = Append(p_responses, response)
             /\ IF ~response.exc /\ response.status_code = 200 /\ response.body # "object"
                THEN p_pc' = "raised" /\ p_map' = EmptyDict
                ELSE p_pc' = p_pc /\ p_map' = date_fetch(p_map, user_id, response)
    /\ p_i' = p_i + 1
    /\ calls' = calls \cup {"roblox.users"}
    /\ UNCHANGED <<around, files, pc, outcome, fetch, locals, id_fetch, p_fn,
                   p_user_ids>>

\* Lines 72 and 108: the loop is over, the map is returned.
ProfileReturn ==
    /\ p_pc = "loop"
    /\ IF p_fn = "avatars" THEN p_i >= Len(valid_ids_of(p_user_ids))
       ELSE p_i > Len(valid_ids_of(p_user_ids))
    /\ p_pc' = "done"
    /\ UNCHANGED <<around, files, pc, outcome, fetch, locals, net, p_fn,
                   p_user_ids, p_i, p_calls, p_responses, p_map>>

\* Lines 246-247: avatar_url_map is what get_roblox_avatar_urls returned,
\* and get_roblox_creation_dates is called with the same ids.
AvatarsReturn ==
    /\ pc = "avatars"
    /\ p_pc = "done"
    /\ avatar_url_map' = p_map
    /\ Call("dates", p_user_ids)
    /\ pc' = "dates"
    /\ UNCHANGED <<around, files, outcome, fetch, net, df_csv, target_discord_ids,
                   discord_data_map, roblox_id_map, creation_date_map, combined_data>>

\* Lines 247-248: creation_date_map is what get_roblox_creation_dates
\* returned.
DatesReturn ==
    /\ pc = "dates"
    /\ p_pc = "done"
    /\ creation_date_map' = p_map
    /\ p_fn' = "none"
    /\ p_user_ids' = <<>>
    /\ p_pc' = "off"
    /\ p_i' = 0
    /\ p_calls' = <<>>
    /\ p_responses' = <<>>
    /\ p_map' = EmptyDict
    /\ pc' = "combine"
    /\ UNCHANGED <<around, files, outcome, fetch, net, df_csv, target_discord_ids,
                   discord_data_map, roblox_id_map, avatar_url_map, combined_data>>

\* Lines 246-247 and 308: what a helper raised leaves refresh_all_data
\* through its except.
ProfileRaises ==
    /\ pc \in {"avatars", "dates"}
    /\ p_pc = "raised"
    /\ Return("critical_error")
    /\ p_fn' = "none"
    /\ p_user_ids' = <<>>
    /\ p_pc' = "off"
    /\ p_i' = 0
    /\ p_calls' = <<>>
    /\ p_responses' = <<>>
    /\ p_map' = EmptyDict
    /\ UNCHANGED <<around, files, fetch, locals, net>>

\* row["DiscordUsername"] is read, at lines 273 and 276, only when the member
\* entry has no user name: with the column missing that raises KeyError.
combine_raises(df, columns, data_map) ==
    /\ "DiscordUsername" \notin columns
    /\ \E i \in DOMAIN df :
          ~Truthy(Get(GetOr(data_map, str(df[i].DiscordID), EmptyDict), "username"))

\* Lines 253-295: one merged record per row of df_csv.
Combine ==
    /\ pc = "combine"
    /\ IF combine_raises(df_csv, csv.columns, discord_data_map)
       THEN Return("critical_error") /\ UNCHANGED combined_data
       ELSE /\ combined_data' =
                  combine(df_csv, discord_data_map, avatar_url_map, creation_date_map)
            /\ pc' = "open"
            /\ UNCHANGED outcome
    /\ UNCHANGED <<around, files, profile, net, fetch, df_csv, target_discord_ids,
                   discord_data_map, roblox_id_map, avatar_url_map, creation_date_map>>

\* Line 299: open(COMBINED_DATA_PATH, "w") truncates the file, or fails and
\* leaves it as it is (the error is caught at line 308).
OpenSnapshot ==
    /\ pc = "open"
    /\ \E result \in {"opened"} \cup may("io", {"open_error"}) :
          IF result = "opened"
          THEN /\ combinedFile' = FileOf(<<>>)
               /\ pc' = "dump"
               /\ UNCHANGED outcome
          ELSE /\ Return("write_error")
               /\ UNCHANGED combinedFile
    /\ UNCHANGED <<around, discordFile, profile, net, fetch, locals>>

\* Lines 300-301: json.dump or the close of the with block fails (the disk
\* is full, say) with none or a part of the text on the disk; the error is
\* caught at line 308.
DumpFails ==
    /\ pc = "dump"
    /\ "io" \in faults
    /\ LET text == json_dump_list(combined_data)
       IN \E n \in {0, Len(text) \div 2} :
             combinedFile' = flush(combinedFile, SubSeq(text, 1, n))
    /\ Return("write_error")
    /\ UNCHANGED <<around, discordFile, profile, net, fetch, locals>>

\* Lines 300-303: json.dump has written the list to the file object, the
\* with block closes it and the refresh reports success.
CloseSnapshot ==
    /\ pc = "dump"
    /\ combinedFile' = flush(combinedFile, json_dump_list(combined_data))
    /\ pc' = "saved"
    /\ UNCHANGED <<around, discordFile, outcome, profile, net, fetch, locals>>

\* Lines 304-305: after time.sleep(2), st.rerun() ends the run.
Rerun ==
    /\ pc = "saved"
    /\ Return("success")
    /\ UNCHANGED <<around, files, profile, net, fetch, locals>>

Next ==
    \/ StartRefresh
    \/ ClientStart
    \/ OnReady
    \/ FetchMember
    \/ PersistOpen
    \/ PersistFails
    \/ PersistDone
    \/ CloseClient
    \/ LoadDiscordData
    \/ FetchRobloxIds
    \/ ProfileStart
    \/ AvatarBatch
    \/ DateFetch
    \/ ProfileReturn
    \/ AvatarsReturn
    \/ DatesReturn
    \/ ProfileRaises
    \/ Combine
    \/ OpenSnapshot
    \/ DumpFails
    \/ CloseSnapshot
    \/ Rerun

Spec == Init /\ [][Next]_vars

\* ------------------------------------------------------ load_cached_data

\* What json.load gives for the file as it is now: a JSONDecodeError when
\* the text does not parse (an empty file included).
json_load(file) ==
    CHOOSE result \in
        {IF r.ok THEN [kind |-> "data", data |-> r.value]
         ELSE [kind |-> "corrupt", data |-> <<>>] :
            r \in {json_parse_list(file.text)}} : TRUE

\* What load_cached_data returns: the parsed list, or None from line 318
\* (no file), line 324 (JSONDecodeError) and line 327 (any other exception).
load_return(result) == IF result.kind = "data" THEN PyList(result.data) ELSE NoneList

\* Line 317-318: os.path.exists(COMBINED_DATA_PATH).
ReaderExists ==
    /\ r_pc = "start"
    /\ IF combinedFile.exists
       THEN r_pc' = "open" /\ UNCHANGED <<r_result, user_data>>
       ELSE /\ r_pc' = "returned"
            /\ r_result' = [kind |-> "missing", data |-> <<>>]
            /\ user_data' = load_return([kind |-> "missing", data |-> <<>>])
    /\ UNCHANGED <<parked, refresh, profile, page, view>>

\* Lines 319-327: the file is opened and parsed, or opening or reading it
\* raises something else (caught at line 325).
ReaderLoad ==
    /\ r_pc = "open"
    /\ \E io \in {"read"} \cup may("io", {"os_error"}) :
          \E result \in {IF io = "read" THEN json_load(combinedFile)
                         ELSE [kind |-> "os_error", data |-> <<>>]} :
             /\ r_result' = result
             /\ user_data' = load_return(result)
    /\ r_pc' = "returned"
    /\ UNCHANGED <<parked, refresh, profile, page, view>>

\* Lines 358-438: `if not user_data` shows the empty state, else the cards.
page_view(data) == IF data.is_none \/ data.list = <<>> THEN "empty_state" ELSE "cards"

Render ==
    /\ r_pc = "returned"
    /\ view' = page_view(user_data)
    /\ r_pc' = "rendered"
    /\ UNCHANGED <<parked, refresh, profile, page, r_result, user_data>>

\* A page load (another session's script run) while an operator's refresh runs.
ReaderRosters == {r \in Rosters : Len(r) <= 1}

InitReader ==
    /\ InitRefresh(ReaderRosters)
    /\ r_pc = "start"
    /\ r_result = [kind |-> "none", data |-> <<>>]
    /\ user_data = NoneList
    /\ view = "none"
    /\ ProfileOff
    /\ OtherOff

NextReader ==
    \/ Next
    \/ ReaderExists
    \/ ReaderLoad
    \/ Render

SpecReader == InitReader /\ [][NextReader]_vars

\* ------------------------------------------------- one run of the script

\* The files users.csv may be: with every column, or with one missing.
ColumnSets == {COLUMNS} \cup {COLUMNS \ {c} : c \in COLUMNS}

\* The admin password is the default or a secret; the field is empty, or
\* holds one of the two.
Passwords == {DEFAULT_ADMIN_PASSWORD, Chars("s3cret")}

\* The button with no password check in front of it.
refresh_allowed_without_password(input, password, clicked) == clicked

\* Lines 341-347: refresh_all_data is called when the field is not empty,
\* equals the admin password, and the button was clicked.
refresh_allowed(input, password, clicked) ==
    IF ~Truthy(input) THEN FALSE
    ELSE IF input = password THEN clicked
    ELSE FALSE

InitPage ==
    /\ InitFiles(ReaderRosters, ColumnSets)
    /\ pc = "page"
    /\ NoRefreshYet
    /\ admin_password \in Passwords
    /\ password_input \in Passwords \cup {<<>>}
    /\ button \in BOOLEAN
    /\ ReaderOff
    /\ ProfileOff
    /\ OtherOff

\* Lines 337-349: the sidebar.
Sidebar ==
    /\ pc = "page"
    /\ pc' = IF refresh_allowed(password_input, admin_password, button)
             THEN "idle" ELSE "not_run"
    /\ UNCHANGED <<around, files, outcome, fetch, locals, net, profile>>

\* Line 356 is reached: right after the sidebar when refresh_all_data was
\* not called or returned through one of its error paths, or in the run
\* st.rerun() starts after a successful refresh (line 306), where the
\* button reads False and the sidebar calls nothing.
PageLoad ==
    /\ r_pc = "off"
    /\ pc \in {"not_run", "returned"}
    /\ r_pc' = "start"
    /\ button' = IF pc = "returned" /\ outcome = "success" THEN FALSE ELSE button
    /\ UNCHANGED <<parked, refresh, profile, admin_password, password_input, r_result,
                   user_data, view>>

NextPage ==
    \/ Sidebar
    \/ Next
    \/ PageLoad
    \/ ReaderExists
    \/ ReaderLoad
    \/ Render

SpecPage == InitPage /\ [][NextPage]_vars

\* ------------------------------------- the Roblox helpers on their own

\* Most ids handed to get_roblox_avatar_urls, and to get_roblox_creation_dates.
MaxAvatarIds == 250
MaxDateIds == 3

\* The ids 1..n as the refresh hands them over, and the same list with a 0
\* in front and a missing value behind, both of which the helpers drop.
IdLists(n) ==
    LET ids == [i \in 1..n |-> PyInt(i)]
    IN {ids, <<PyInt(0)>> \o ids \o <<NaN>>}

InitProfile ==
    /\ secrets_set = FALSE
    /\ csv = NoCsv
    /\ discordFile = NoFile
    /\ combinedFile = NoFile
    /\ combined0 = NoFile
    /\ faults = {"login", "member", "usernames", "avatars", "dates", "io"}
    /\ pc = "idle"
    /\ NoRefreshYet
    /\ OperatorIn
    /\ ReaderOff
    /\ OtherOff
    /\ p_fn \in {"avatars", "dates"}
    /\ p_user_ids \in UNION {IdLists(n) :
                               n \in 0..(IF p_fn = "avatars" THEN MaxAvatarIds ELSE MaxDateIds)}
    /\ p_pc = "call"
    /\ p_i = 0
    /\ p_calls = <<>>
    /\ p_responses = <<>>
    /\ p_map = EmptyDict

NextProfile ==
    \/ ProfileStart
    \/ AvatarBatch
    \/ DateFetch
    \/ ProfileReturn

SpecProfile == InitProfile /\ [][NextProfile]_vars

\* ------------------------------------------- two refreshes at the same time

\* Two sessions run refresh_all_data on the same users.csv and the same two
\* files, each in its own script thread; nothing in the code keeps the
\* second out.  One session's refresh is in the variables of the refresh,
\* the other's is parked, and the scheduler can change over between any two
\* steps.  The two are told apart by their state only.
Switch ==
    /\ parked.pc # "off"
    /\ parked' = Session
    /\ pc' = parked.pc
    /\ outcome' = parked.outcome
    /\ df_csv' = parked.df_csv
    /\ target_discord_ids' = parked.target_discord_ids
    /\ client' = parked.client
    /\ discord_data' = parked.discord_data
    /\ idx' = parked.idx
    /\ fetch_exit' = parked.fetch_exit
    /\ events' = parked.events
    /\ discord_data_map' = parked.discord_data_map
    /\ roblox_id_map' = parked.roblox_id_map
    /\ avatar_url_map' = parked.avatar_url_map
    /\ creation_date_map' = parked.creation_date_map
    /\ combined_data' = parked.combined_data
    /\ calls' = parked.calls
    /\ id_fetch' = parked.id_fetch
    /\ p_fn' = parked.p_fn
    /\ p_user_ids' = parked.p_user_ids
    /\ p_pc' = parked.p_pc
    /\ p_i' = parked.p_i
    /\ p_calls' = parked.p_calls
    /\ p_responses' = parked.p_responses
    /\ p_map' = parked.p_map
    /\ UNCHANGED <<env, files, reader, page>>

\* The rosters of one row with the chat id 1 and a game name.
TwoRosters ==
    {r \in ReaderRosters :
        Len(r) = 1 /\ r[1].DiscordID = <<"1">> /\ r[1].RobloxUsername # NaN}

\* Two operators click the button on a roster of one row; no file yet.  In
\* a run the chat service and the disk show failures, or the member
\* requests and the creation date requests do.
InitTwo ==
    /\ secrets_set = TRUE
    /\ csv \in {[exists |-> TRUE, rows |-> r, columns |-> COLUMNS] : r \in TwoRosters}
    /\ discordFile = NoFile
    /\ combinedFile = NoFile
    /\ combined0 = NoFile
    /\ faults \in {{"login", "member", "io"}, {"member", "dates"}}
    /\ pc = "idle"
    /\ NoRefreshYet
    /\ OperatorIn
    /\ ReaderOff
    /\ ProfileOff
    /\ parked = FreshSession

NextTwo ==
    \/ Next
    \/ Switch

SpecTwo == InitTwo /\ [][NextTwo]_vars

\* ------------------------------------------------------------ properties

\* The refresh hit one of the errors the design calls fatal.
FatalError ==
    \/ outcome \in {"no_secrets", "no_csv"}
    \/ fetch_exit \in {"login_failure", "guild_not_found"}

\* The reconciliation loop has run.
Reconciled == pc \in {"open", "dump", "saved"} \/ outcome = "success"

\* The target ids of the model int() reads: "1", and U+0663 (3).
NumericIds == {<<"1">>, <<"U+0663">>}

\* C1: a refresh that hits a fatal error (missing credential, missing
\* roster file, login failure, guild not found) never writes the final
\* snapshot: combined_data.json stays what it was before the refresh.
C1_FatalErrorLeavesSnapshot == FatalError => combinedFile = combined0

\* C3: a refresh that reaches the reconciliation step builds, and on success
\* has exactly one merged record per row of the roster, in roster
\* order, whatever the chat and game lookups returned.
C3_OneRecordPerRosterRow ==
    /\ Reconciled =>
          /\ Len(combined_data) = Len(csv.rows)
          /\ \A i \in DOMAIN csv.rows :
                /\ combined_data[i].discordId = str(str_strip(csv.rows[i].DiscordID))
                /\ combined_data[i].robloxUsername = csv.rows[i].RobloxUsername
    /\ outcome = "success" => combinedFile = FileOf(json_dump_list(combined_data))

\* Two rows, one member not found and one whose lookup failed in transport,
\* a game name that did not resolve, and both records in the snapshot.
C3_Witness ==
    /\ outcome = "success"
    /\ \E e \in Range(events) : e.outcome = "not_found"
    /\ \E e \in Range(events) : e.outcome = "http_error"
    /\ LET records == json_parse_list(combinedFile.text).value
       IN /\ Len(records) = 2
          /\ \E i \in DOMAIN records : records[i].robloxId = N_A

\* C4: in every final snapshot no two merged records have the same chat id
\* and no merged record has an empty or missing chat id.
C4_SnapshotChatIdsUniqueNonEmpty ==
    outcome = "success" =>
        LET records == json_parse_list(combinedFile.text).value
        IN /\ \A i, j \in DOMAIN records :
                 i # j => records[i].discordId # records[j].discordId
           /\ \A i \in DOMAIN records : records[i].discordId \notin {<<>>, str(NaN)}

\* The chat id of record i has no entry in the chat-member mapping, or an
\* error-tagged one.
NoChatMember(i) ==
    LET id == combined_data[i].discordId
    IN id \notin DOMAIN discord_data_map \/ "error" \in DOMAIN discord_data_map[id]

\* C5: for every roster row whose chat id has no entry in the chat-member
\* mapping, or an error-tagged one, the merged record's chat username is the
\* roster's raw chat username and both chat dates are null.
C5_MissingMemberFallsBackToRoster ==
    \A i \in DOMAIN combined_data :
        NoChatMember(i) =>
            /\ combined_data[i].discordUsername = csv.rows[i].DiscordUsername
            /\ combined_data[i].discordJoinDate = None
            /\ combined_data[i].discordCreationDate = None

\* A snapshot with a record for a member that was looked up and not found,
\* carrying the roster's name.
C5_Witness ==
    /\ outcome = "success"
    /\ \E i \in DOMAIN combined_data :
          /\ combined_data[i].discordId \in DOMAIN discord_data_map
          /\ NoChatMember(i)
          /\ combined_data[i].discordUsername = <<"a", "l">>

\* The display name as the specification computes it.
Absent(v) == v \in {None, NaN}

SpecDisplayName(discord_info, row_username) ==
    LET display_name == Get(discord_info, "displayName")
        username == Get(discord_info, "username")
    IN IF ~Absent(display_name)
       THEN IF contains(display_name, DELIM)
            THEN strip(SubSeq(display_name, FirstIndex(display_name, DELIM) + 1,
                              Len(display_name)))
            ELSE display_name
       ELSE IF ~Absent(username) THEN username
       ELSE IF ~Absent(row_username) THEN row_username
       ELSE N_A

\* C6: the merged display name is the trimmed text after the first delimiter
\* of the member's display name, the display name itself when it has no
\* delimiter, else the member's username, else the roster's chat username,
\* else "N/A" when all of them are absent.
C6_DisplayNameFallbackChain ==
    \A i \in DOMAIN combined_data :
        combined_data[i].discordDisplayName =
            SpecDisplayName(GetOr(discord_data_map, combined_data[i].discordId, EmptyDict),
                            csv.rows[i].DiscordUsername)

\* C9: once on_ready has run, the client is closed by the time
\* fetch_discord_data returns, on every way out of on_ready.
C9_SessionClosedOnReturn ==
    (fetch_exit \notin {"none", "login_failure", "start_error"} /\ pc # "closing")
        => client = "closed"

\* The loop was left by an exception after a lookup, and the client is closed.
C9_Witness ==
    /\ fetch_exit = "on_ready_error"
    /\ \E e \in Range(events) : e.outcome = "escape"
    /\ \E e \in Range(events) : e.outcome = "ok"
    /\ pc = "load"
    /\ client = "closed"

\* No lookup was sent for the id of the event: the loop skipped it at line
\* 134, or int() raised on it at line 138.
NoLookup(e) == ~e.lookup

\* C10: the member loop visits the target ids in order; an id that is not
\* numeric gets no lookup and records nothing, a not-found records the
\* error-tagged entry, any other error records nothing, a success records
\* the member, and the persisted mapping has entries for exactly the found
\* and not-found ids.
C10_MemberLoopRecords ==
    /\ \A k \in DOMAIN events :
          LET e == events[k]
          IN /\ e.id = target_discord_ids[k]
             /\ NoLookup(e) <=> (e.id \notin NumericIds)
             /\ e.outcome = "skipped" => NoLookup(e)
             /\ e.outcome \in {"skipped", "http_error", "error", "escape"}
                   => e.id \notin DOMAIN discord_data
             /\ e.outcome = "not_found"
                   => e.id \in DOMAIN discord_data /\ discord_data[e.id] = USER_NOT_FOUND
             /\ e.outcome = "ok"
                   => e.id \in DOMAIN discord_data /\ discord_data[e.id] = MemberOf(int_of_id(e.id))
    /\ ("discord.fetch_member" \in calls) <=> (\E e \in Range(events) : ~NoLookup(e))
    /\ pc = "loop" => idx = Len(events) + 1
    /\ fetch_exit = "persisted" =>
          /\ Len(events) = Len(target_discord_ids)
          /\ discordFile = FileOf(json_dump_dict(discord_data, target_discord_ids))
          /\ DOMAIN json_parse_dict(discordFile.text).value =
                {e.id : e \in {x \in Range(events) : x.outcome \in {"ok", "not_found"}}}

\* A persisted mapping after an id that got no lookup, followed by a lookup
\* that was answered not found.
C10_Witness ==
    /\ fetch_exit = "persisted"
    /\ Len(events) = 2
    /\ NoLookup(events[1])
    /\ events[2].outcome = "not_found"
    /\ DOMAIN json_parse_dict(discordFile.text).value = {events[2].id}

\* What load_cached_data finds when it reads `file` undisturbed.
ReadOf(file) ==
    IF file.exists THEN json_load(file) ELSE [kind |-> "missing", data |-> <<>>]

\* C2: a page load reading the cache while a refresh writes it sees the
\* complete previous snapshot (or none, if there was none) or the complete
\* new one, never an empty or truncated file.
C2_ReaderSeesOldOrNewSnapshot ==
    r_pc = "returned" =>
        \/ r_result = ReadOf(combined0)
        \/ r_result = [kind |-> "data", data |-> combined_data]

\* The ids of the argument that are valid: ints other than 0.
ValidInput == SelectSeq(p_user_ids, LAMBDA v : IsInt(v) /\ v[2] # 0)

\* The ids the answered avatar requests named.
AnsweredTargets ==
    UNION {{p_responses[k].data[j].targetId : j \in DOMAIN p_responses[k].data} :
             k \in {x \in DOMAIN p_responses : p_responses[x].ok}}

\* Every answer names only ids of the batch it answers.
AnswersInBatch ==
    \A k \in DOMAIN p_responses :
        LET asked == {int_of_str(x) : x \in Range(p_calls[k])}
        IN \A j \in DOMAIN p_responses[k].data : p_responses[k].data[j].targetId \in asked

\* ceil(n/100) requests of at most 100 ids, consecutive slices of the valid
\* ids in order; none and an empty map for no valid id.
AvatarCallsBatched ==
    LET ids == ValidInput
        n == Len(ids)
    IN /\ Len(p_calls) = (n + 99) \div 100
       /\ \A k \in DOMAIN p_calls :
             /\ Len(p_calls[k]) = IF k < Len(p_calls) THEN 100 ELSE n - 100 * (k - 1)
             /\ \A j \in DOMAIN p_calls[k] :
                   int_of_str(p_calls[k][j]) = ids[100 * (k - 1) + j]
       /\ n = 0 => p_calls = <<>> /\ p_map = EmptyDict

\* C7 as stated: batching as above, and for every answer of the service the
\* keys of the returned map are among the input ids.
C7_AvatarKeysAlwaysWithinInput ==
    (p_fn = "avatars" /\ p_pc = "done") =>
        /\ AvatarCallsBatched
        /\ DOMAIN p_map \subseteq Range(ValidInput)

\* C7, amended: batching as above; the keys of the returned map are the ids
\* the answered requests named, so they are among the input ids whenever
\* every answer names only ids of its own batch.
C7_AvatarBatching ==
    (p_fn = "avatars" /\ p_pc = "done") =>
        /\ AvatarCallsBatched
        /\ DOMAIN p_map = AnsweredTargets
        /\ AnswersInBatch => DOMAIN p_map \subseteq Range(ValidInput)

\* 250 valid ids went out as 100, 100 and 50, all answered in full.
C7_Witness ==
    /\ p_fn = "avatars"
    /\ p_pc = "done"
    /\ Len(ValidInput) = 250
    /\ Len(p_calls) = 3
    /\ Len(p_calls[1]) = 100
    /\ Len(p_calls[2]) = 100
    /\ Len(p_calls[3]) = 50
    /\ AnswersInBatch
    /\ Cardinality(DOMAIN p_map) = 250

\* The k-th answer is one the helper raises on: a 200 whose body is no JSON
\* object.
AnswerRaises(k) ==
    /\ p_responses[k].body # "object"
    /\ IF p_fn = "dates"
       THEN ~p_responses[k].exc /\ p_responses[k].status_code = 200
       ELSE p_responses[k].ok

\* Every creation date request so far left its own id with what it
\* returned, null if it failed, and the loop went through every id.
DatesIsolated ==
    LET ids == ValidInput
    IN /\ \A k \in DOMAIN p_responses :
             /\ ids[k] \in DOMAIN p_map
             /\ p_map[ids[k]] =
                   IF ~p_responses[k].exc /\ p_responses[k].status_code = 200
                   THEN p_responses[k].created ELSE None
       /\ p_pc = "done" => Len(p_responses) = Len(ids)

\* Every answered avatar request so far left the ids it named with their
\* images, and the loop went through every batch.
AvatarsKept ==
    /\ \A k \in DOMAIN p_responses :
          p_responses[k].ok =>
             \A j \in DOMAIN p_responses[k].data :
                LET avatar == p_responses[k].data[j]
                IN /\ avatar.targetId \in DOMAIN p_map
                   /\ p_map[avatar.targetId] = avatar.imageUrl
    /\ p_pc = "done" => Len(p_responses) = (Len(ValidInput) + 99) \div 100

\* The ids of the k-th avatar request that have no value in the map.
LostIds(k) == {j \in DOMAIN p_calls[k] : int_of_str(p_calls[k][j]) \notin DOMAIN p_map}

\* C8 as stated: in both profile fetches a failure while fetching costs one
\* id only, whose value is null or absent; every other id keeps its value
\* and the loop goes on to the remaining ids and batches.
C8_FailureCostsOneId ==
    /\ p_pc # "raised"
    /\ p_fn = "dates" => DatesIsolated
    /\ p_fn = "avatars" =>
          /\ AvatarsKept
          /\ \A k \in DOMAIN p_responses :
                ~p_responses[k].ok => Cardinality(LostIds(k)) <= 1

\* C8, amended: a request failure the code handles (a RequestException, or
\* a status other than 200 of a creation date request) costs the ids of
\* that request only: a creation date request is for one id, which gets
\* null while every other id keeps what its own request returned; an
\* avatar request is for a batch of up to 100 ids, which are all left out
\* while the ids of the answered batches keep their images; and the loops
\* go on to the remaining ids and batches.  A 200 answer whose body is no
\* JSON object raises out of the helper, and no id gets a value.
C8_ProfileFailureIsolated ==
    IF p_pc = "raised"
    THEN AnswerRaises(Len(p_responses)) /\ p_map = EmptyDict
    ELSE /\ \A k \in DOMAIN p_responses : ~AnswerRaises(k)
         /\ p_fn = "dates" => DatesIsolated
         /\ p_fn = "avatars" =>
               /\ AvatarsKept
               /\ \A k \in DOMAIN p_responses :
                     ~p_responses[k].ok => LostIds(k) = DOMAIN p_calls[k]

\* 250 avatars asked for in three batches, the second request failed: the
\* ids 1..100 and 201..250 have their images, none of 101..200 has one.
C8_Witness ==
    /\ p_fn = "avatars"
    /\ p_pc = "done"
    /\ Len(ValidInput) = 250
    /\ Len(p_responses) = 3
    /\ ~p_responses[2].ok
    /\ DOMAIN p_map = {PyInt(n) : n \in (1..100) \cup (201..250)}
    /\ p_map[PyInt(1)] = AvatarUrlOf(PyInt(1))
    /\ p_map[PyInt(250)] = AvatarUrlOf(PyInt(250))

\* load_cached_data has returned to the page.
ReadDone == r_pc \in {"returned", "rendered"}

\* C11: reading the snapshot returns absent when there is no snapshot file;
\* when the file exists and does not parse the caller gets an outcome it
\* can tell from the missing one, never a partly parsed record list, and no
\* exception leaves the read.
C11_CorruptDistinctFromMissing ==
    ReadDone =>
        /\ r_result.kind = "missing" => user_data = NoneList
        /\ r_result.kind = "corrupt" =>
              /\ user_data # load_return([kind |-> "missing", data |-> <<>>])
              /\ user_data.list = <<>>

\* C12: after any refresh, succeeded or failed at any step (the write of
\* the final snapshot included), combined_data.json holds exactly the
\* previous snapshot or exactly the complete new record list.
C12_SnapshotOldOrCompleteNew ==
    pc = "returned" =>
        \/ combinedFile = combined0
        \/ combinedFile = FileOf(json_dump_list(combined_data))

\* C13: for every roster row the game id is looked up under the lower-cased
\* roster game username; when it is absent the record has the sentinel id,
\* a null creation date and the placeholder avatar; when it is present the
\* record has the id, the placeholder when the avatar fetch gave nothing
\* for it (else the image), and null when the creation date fetch failed
\* (else the date).
C13_GameIdLookup ==
    Reconciled =>
        \A i \in DOMAIN combined_data :
            LET name == csv.rows[i].RobloxUsername
                rec == combined_data[i]
            IN IF name = NaN \/ lower(name) \notin DOMAIN roblox_id_map
               THEN /\ rec.robloxId = N_A
                    /\ rec.robloxCreationDate = None
                    /\ rec.robloxAvatarUrl = ROBLOX_AVATAR_PLACEHOLDER
               ELSE LET id == roblox_id_map[lower(name)]
                        no_avatar == id \notin DOMAIN avatar_url_map
                        no_date == id \notin DOMAIN creation_date_map
                    IN /\ rec.robloxId = id
                       /\ rec.robloxAvatarUrl =
                             IF no_avatar THEN ROBLOX_AVATAR_PLACEHOLDER
                             ELSE IF avatar_url_map[id] = None THEN ROBLOX_AVATAR_PLACEHOLDER
                             ELSE avatar_url_map[id]
                       /\ rec.robloxCreationDate =
                             IF no_date THEN None ELSE creation_date_map[id]

\* A snapshot of two rows whose names resolved to different ids, the first
\* under a key that ends in a final sigma: the first id was left out of
\* the avatar answer and its creation date request failed, the second has
\* its image and its date.
C13_Witness ==
    /\ outcome = "success"
    /\ Len(combined_data) = 2
    /\ csv.rows[1].RobloxUsername = <<"A", "U+03A3">>
    /\ csv.rows[2].RobloxUsername = <<"B", "o", "b">>
    /\ DOMAIN roblox_id_map = {<<"a", "U+03C2">>, <<"b", "o", "b">>}
    /\ combined_data[1].robloxId = PyInt(6)
    /\ combined_data[1].robloxAvatarUrl = ROBLOX_AVATAR_PLACEHOLDER
    /\ PyInt(6) \in DOMAIN creation_date_map
    /\ combined_data[1].robloxCreationDate = None
    /\ combined_data[2].robloxId = PyInt(7)
    /\ combined_data[2].robloxAvatarUrl = AvatarUrlOf(PyInt(7))
    /\ combined_data[2].robloxCreationDate = CreatedOf(PyInt(7))

\* C14: a transport failure of the user name request is not fatal:
\* get_roblox_ids returns an empty mapping, no avatar or profile request is
\* sent, the refresh goes on to reconcile and write, and the snapshot has
\* one record per roster row, each with the sentinel game id.
C14_UsernameFailureNonFatal ==
    id_fetch = "failed" =>
        /\ roblox_id_map = EmptyDict
        /\ "roblox.usernames" \in calls
        /\ "roblox.avatars" \notin calls
        /\ "roblox.users" \notin calls
        /\ pc \in {"avatars", "dates", "combine", "open", "dump", "saved", "returned"}
        /\ outcome \in {"running", "success", "write_error"}
        /\ Reconciled =>
              /\ Len(combined_data) = Len(csv.rows)
              /\ \A i \in DOMAIN combined_data : combined_data[i].robloxId = N_A
        /\ outcome = "success" => combinedFile = FileOf(json_dump_list(combined_data))

\* The user name request failed and the snapshot of the two rows is written.
C14_Witness ==
    /\ id_fetch = "failed"
    /\ outcome = "success"
    /\ LET records == json_parse_list(combinedFile.text).value
       IN /\ Len(records) = 2
          /\ \A i \in DOMAIN records : records[i].robloxId = N_A

\* C15: the records a refresh wrote, read back by load_cached_data with no
\* write in between, are the same records in the same order, every field
\* equal, for any number of records.
C15_SnapshotRoundTrip ==
    (outcome = "success" /\ ReadDone /\ r_result.kind # "os_error") =>
        /\ ~user_data.is_none
        /\ py_eq_list(user_data.list, combined_data)

\* C17: when users.csv lacks one of the columns DiscordID, DiscordUsername
\* and RobloxUsername the refresh fails and combined_data.json is not
\* whatever the chat and game lookups return.
C17_MissingColumnWritesNoSnapshot ==
    (csv.exists /\ csv.columns # COLUMNS) =>
        /\ outcome # "success"
        /\ combinedFile = combined0

\* The operator passed the password check and clicked the button.
GatePassed ==
    /\ password_input # <<>>
    /\ password_input = admin_password
    /\ button

\* The script is inside refresh_all_data.
InRefresh == pc \notin {"page", "not_run", "returned"}

\* C18: load_cached_data and the rendering of the page change neither
\* discord_data.json nor combined_data.json and send no request; requests
\* and file writes happen only inside refresh_all_data, which runs only
\* after the password check passed and the button was clicked.
C18_PageOnlyReads ==
    [][/\ (r_pc' # r_pc) => (files' = files /\ calls' = calls)
       /\ (files' # files \/ calls' # calls) => (InRefresh /\ GatePassed)
       /\ (InRefresh' /\ ~InRefresh) => GatePassed]_vars

\* The button came with a wrong password: the page shows the cards of the
\* old snapshot, no request was sent and no file was touched.
C18_Witness ==
    /\ r_pc = "rendered"
    /\ view = "cards"
    /\ button
    /\ password_input \notin {<<>>, admin_password}
    /\ pc = "not_run"
    /\ calls = {}
    /\ combinedFile = combined0

\* A refresh has closed its final snapshot (and may have returned since).
Saved(at, how) == at = "saved" \/ (at = "returned" /\ how = "success")

\* C19: nothing keeps two refreshes apart.  Each takes, at line 218,
\* whatever discord_data.json holds at that moment, its own mapping or the
\* other refresh's, and builds its final snapshot from that; and once both
\* have closed combined_data.json, the file holds the snapshot of the one
\* that closed last, followed by the end of the other's where that one is
\* longer and was not truncated in between, whichever of the two returns
\* last.
C19_RefreshesShareFiles ==
    /\ [][(parked' = parked /\ pc = "load" /\ pc' = "roblox") =>
             discord_data_map' = json_parse_dict(discordFile.text).value]_vars
    /\ [](Saved(pc, outcome) /\ Saved(parked.pc, parked.outcome) =>
             LET mine == json_dump_list(combined_data)
                 other == json_dump_list(parked.combined_data)
             IN combinedFile \in {FileOf(mine), FileOf(other),
                                  flush(FileOf(mine), other),
                                  flush(FileOf(other), mine)})

\* Both refreshes persisted their mappings and closed their snapshots.  The
\* one that has returned took the other's mapping from the file, not its
\* own, and the snapshot on disk is the one it built from that, not the
\* other's; the other is still in its sleep of line 304, so it is the one
\* to finish last and not the last writer.
C19_Witness ==
    /\ parked.fetch_exit = "persisted"
    /\ fetch_exit = "persisted"
    /\ pc = "returned"
    /\ outcome = "success"
    /\ parked.pc = "saved"
    /\ discord_data_map = parked.discord_data
    /\ discord_data_map # discord_data
    /\ combinedFile = FileOf(json_dump_list(combined_data))
    /\ combined_data # parked.combined_data

\* C20: the chat-member data a refresh reconciles with is the mapping its
\* own member fetch produced, never data persisted by an earlier refresh,
\* also when the fetch ended without persisting (login failure, guild not
\* found, an exception before the intermediate write).
C20_ReconciledWithOwnFetch ==
    Reconciled => discord_data_map = discord_data

====
